---- MODULE Spec2Model ----
(***************************************************************************)
(* Model of the recruitment API of bispado/gengitIA: the compatibility     *)
(* scorer (services/ai_service.py), the ranking endpoint (main.py), the    *)
(* talent-search fallback and the data access gateway                      *)
(* (services/database_service.py) with its connection pool (database.py).  *)
(***************************************************************************)
EXTENDS Integers, Sequences, FiniteSets, TLC

(***************************************************************************)
(* Bounds of the model.                                                    *)
(***************************************************************************)
MaxSkills == 2
MaxPool == 2
MaxLimit == 2

(***************************************************************************)
(* Generic helpers.                                                        *)
(***************************************************************************)
Range(s) == {s[i] : i \in DOMAIN s}

SeqsUpTo(S, n) == UNION {[1..k -> S] : k \in 0..n}

\* All the lists that enumerate the finite set S once each: the orders in
\* which Python's list(set) may yield the elements.
Enumerations(S) ==
    {s \in [1..Cardinality(S) -> S] : Range(s) = S}

RECURSIVE GCD(_, _)
GCD(a, b) == IF b = 0 THEN a ELSE GCD(b, a % b)

Abs(x) == IF x < 0 THEN -x ELSE x

\* A float value, kept exact as a reduced fraction n/d with d > 0.
Rat(n, d) ==
    LET g == GCD(Abs(n), d) IN [n |-> n \div g, d |-> d \div g]

RatOfInt(i) == Rat(i, 1)
RatMul(a, b) == Rat(a.n * b.n, a.d * b.d)
RatDiv(a, b) == Rat(a.n * b.d, a.d * b.n)
RatLess(a, b) == a.n * b.d < b.n * a.d
RatLeq(a, b) == a.n * b.d <= b.n * a.d

(***************************************************************************)
(* JSON values as json.loads yields them; a Python dict is a function      *)
(* whose DOMAIN is the set of keys present.                                 *)
(***************************************************************************)
JNull == [t |-> "null"]
JNum(i) == [t |-> "num", n |-> i]
JStr(x) == [t |-> "str", s |-> x]
JList(x) == [t |-> "list", l |-> x]
JObj(f) == [t |-> "obj", o |-> f]

\* A mutant: a missing key yields None, as o.get(key) would.
DictGetNoDefault(o, key, default) == IF key \in DOMAIN o THEN o[key] ELSE JNull

\* dict.get(key, default)
DictGet(o, key, default) == IF key \in DOMAIN o THEN o[key] ELSE default

\* The strings float() accepts, with their values.
NumericStrings == {"85"}
NumericStringValue(x) == 85

\* float(x): a value, or the exception Python raises.
PyFloat(x) ==
    CASE x.t = "num" -> [raised |-> FALSE, value |-> RatOfInt(x.n)]
      [] x.t = "str" ->
            IF x.s \in NumericStrings
            THEN [raised |-> FALSE, value |-> RatOfInt(NumericStringValue(x.s))]
            ELSE [raised |-> TRUE, exc |-> "ValueError"]
      [] OTHER -> [raised |-> TRUE, exc |-> "TypeError"]

(***************************************************************************)
(* The text of a model reply, as a list of tokens: markdown code fences    *)
(* and bodies. A body is prose (not JSON) or the text of a JSON value.     *)
(***************************************************************************)
FenceJson == [k |-> "fence", lang |-> "json", chars |-> 7]
FencePlain == [k |-> "fence", lang |-> "", chars |-> 3]
Prose(c) == [k |-> "prose", chars |-> c]
JsonText(v) == [k |-> "json", v |-> v, chars |-> 40]

RECURSIVE TextChars(_)
TextChars(text) ==
    IF text = <<>> THEN 0 ELSE Head(text).chars + TextChars(Tail(text))

Front(s) == SubSeq(s, 1, Len(s) - 1)

\* ai_service.py 124-131: strip(), drop a leading ```json, a leading ```
\* and a trailing ```, strip().
StripFences(text) ==
    LET t1 == IF text # <<>> /\ Head(text) = FenceJson THEN Tail(text) ELSE text
        t2 == IF t1 # <<>> /\ Head(t1).k = "fence" /\ Head(t1).lang = ""
              THEN Tail(t1) ELSE t1
        t3 == IF t2 # <<>> /\ t2[Len(t2)] = FencePlain THEN Front(t2) ELSE t2
    IN t3

\* json.loads: the value, or JSONDecodeError when the text is not exactly
\* one JSON document.
JsonLoads(text) ==
    IF Len(text) = 1 /\ text[1].k = "json"
    THEN [raised |-> FALSE, value |-> text[1].v]
    ELSE [raised |-> TRUE, exc |-> "JSONDecodeError"]

AnalysisMaxChars == 500

Min(a, b) == IF a < b THEN a ELSE b

\* text[:500]
Truncate(text) ==
    [t |-> "str", s |-> "reply", chars |-> Min(TextChars(text), AnalysisMaxChars)]

FallbackText ==
    [t |-> "str", s |-> "Analise automatica baseada em skills.", chars |-> 87]

(***************************************************************************)
(* The skill-overlap heuristic shared by the two fallback paths.           *)
(***************************************************************************)
\* A mutant: set difference in place of the intersection.
SkillsNotRequired(candidate_data, job_data) ==
    Range(candidate_data.skills) \ Range(job_data.required_skills)

\* set(candidate skills).intersection(set(job required skills))
CommonSkills(candidate_data, job_data) ==
    Range(candidate_data.skills) \cap Range(job_data.required_skills)

\* A mutant: the ratio taken over the list of required skills, duplicates
\* counted, instead of over the set.
ProfessionalScoreOverList(candidate_data, job_data) ==
    IF job_data.required_skills # <<>>
    THEN RatMul(Rat(Cardinality(CommonSkills(candidate_data, job_data)),
                    Len(job_data.required_skills)),
                RatOfInt(100))
    ELSE RatOfInt(0)

\* (len(common_skills) / len(job_skills) * 100) if job_skills else 0
ProfessionalScore(candidate_data, job_data) ==
    IF Range(job_data.required_skills) # {}
    THEN RatMul(Rat(Cardinality(CommonSkills(candidate_data, job_data)),
                    Cardinality(Range(job_data.required_skills))),
                RatOfInt(100))
    ELSE RatOfInt(0)

\* A mutant: a larger factor.
EstimateGenerous(professional_score) == RatMul(professional_score, Rat(8, 10))

\* A mutant: the estimate without its factor.
EstimateUnscaled(professional_score) == professional_score

\* professional_score * 0.7
Estimate(professional_score) == RatMul(professional_score, Rat(7, 10))

\* _extract_info_from_text: order is the order in which list(common_skills)
\* yields the common skills.
extract_info_from_text(text, candidate_data, job_data, order) ==
    [compatibility_score |-> Estimate(ProfessionalScore(candidate_data, job_data)),
     cultural_fit_score |-> RatOfInt(50),
     professional_fit_score |-> ProfessionalScore(candidate_data, job_data),
     ai_analysis |-> Truncate(text),
     red_flags |-> JList(<<>>),
     strengths |-> JList(order),
     recommendation |-> JStr("EM_ANALISE"),
     suggested_questions |-> JList(<<>>)]

\* A mutant: another default for the cultural fit.
fallback_analysis_other_default(candidate_data, job_data, order) ==
    [compatibility_score |-> Estimate(ProfessionalScore(candidate_data, job_data)),
     cultural_fit_score |-> RatOfInt(60),
     professional_fit_score |-> ProfessionalScore(candidate_data, job_data),
     ai_analysis |-> FallbackText,
     red_flags |-> JList(<<>>),
     strengths |-> JList(order),
     recommendation |-> JStr("EM_ANALISE"),
     suggested_questions |-> JList(<<>>)]

\* _get_fallback_analysis
get_fallback_analysis(candidate_data, job_data, order) ==
    [compatibility_score |-> Estimate(ProfessionalScore(candidate_data, job_data)),
     cultural_fit_score |-> RatOfInt(50),
     professional_fit_score |-> ProfessionalScore(candidate_data, job_data),
     ai_analysis |-> FallbackText,
     red_flags |-> JList(<<>>),
     strengths |-> JList(order),
     recommendation |-> JStr("EM_ANALISE"),
     suggested_questions |-> JList(<<>>)]

(***************************************************************************)
(* _parse_analysis_response: the parsed result, the text heuristic on a    *)
(* JSONDecodeError, or the exception that leaves the function.             *)
(***************************************************************************)
NoContent == [k |-> "none"]
Content(text) == [k |-> "text", text |-> text]

parse_analysis_response(content, candidate_data, job_data, order) ==
    IF content.k = "none"
    THEN [raised |-> TRUE, exc |-> "AttributeError"]
    ELSE
      LET response_text == StripFences(content.text)
          loaded == JsonLoads(response_text)
      IN IF loaded.raised
         THEN [raised |-> FALSE,
               value |-> extract_info_from_text(response_text, candidate_data,
                                             job_data, order)]
         ELSE IF loaded.value.t # "obj"
         THEN [raised |-> TRUE, exc |-> "AttributeError"]
         ELSE
           LET analysis == loaded.value.o
               c == PyFloat(DictGet(analysis, "compatibility_score", JNum(0)))
               u == PyFloat(DictGet(analysis, "cultural_fit_score", JNum(0)))
               p == PyFloat(DictGet(analysis, "professional_fit_score", JNum(0)))
           IN IF c.raised THEN c
              ELSE IF u.raised THEN u
              ELSE IF p.raised THEN p
              ELSE [raised |-> FALSE,
                    value |->
                      [compatibility_score |-> c.value,
                       cultural_fit_score |-> u.value,
                       professional_fit_score |-> p.value,
                       ai_analysis |-> DictGet(analysis, "analysis", JStr("")),
                       red_flags |-> DictGet(analysis, "red_flags", JList(<<>>)),
                       strengths |-> DictGet(analysis, "strengths", JList(<<>>)),
                       recommendation |->
                           DictGet(analysis, "recommendation", JStr("EM_ANALISE")),
                       suggested_questions |->
                           DictGet(analysis, "suggested_questions", JList(<<>>))]]

(***************************************************************************)
(* analyze_candidate_compatibility. completion is the outcome of the call  *)
(* to the completion model: it raised, or it returned a message content.   *)
(***************************************************************************)
CallFailed == [ok |-> FALSE]
Completion(content) == [ok |-> TRUE, content |-> content]

\* A mutant: no except clause around the call and the parse.
analyze_without_except(candidate_data, job_data, completion, order) ==
    IF ~completion.ok
    THEN [raised |-> TRUE, exc |-> "APIError"]
    ELSE parse_analysis_response(completion.content, candidate_data, job_data, order)

analyze_candidate_compatibility(candidate_data, job_data, completion, order) ==
    IF ~completion.ok
    THEN [raised |-> FALSE,
          value |-> get_fallback_analysis(candidate_data, job_data, order)]
    ELSE
      LET parsed == parse_analysis_response(completion.content, candidate_data,
                                          job_data, order)
      IN IF parsed.raised
         THEN [raised |-> FALSE,
               value |-> get_fallback_analysis(candidate_data, job_data, order)]
         ELSE parsed


(***************************************************************************)
(* The replies of the completion model fed to the scorer.                  *)
(***************************************************************************)
Absent == [t |-> "absent"]

\* A JSON object with the fields of f that are not Absent.
MakeObj(f) == JObj([k \in {x \in DOMAIN f : f[x] # Absent} |-> f[k]])

ScoreValues ==
    {JNum(-5), JNum(0), JNum(85), JNum(100), JNum(150),
     JStr("85"), JStr("alto"), JNull, Absent}

RecommendationValues ==
    {JStr("APROVADO"), JStr("REPROVADO"), JStr("EM_ANALISE"),
     JStr("TALVEZ"), JNull, Absent}

\* A string that is joined or split is the list of its characters.
ListValues == {JList(<<>>), JList(<< <<"g", "a", "p">> >>), JNull, Absent}

ReplyObject(score, professional, recommendation, red_flags, strengths) ==
    MakeObj([compatibility_score |-> score,
             cultural_fit_score |-> JNum(60),
             professional_fit_score |-> professional,
             analysis |-> JStr("parecer"),
             red_flags |-> red_flags,
             strengths |-> strengths,
             recommendation |-> recommendation,
             suggested_questions |-> JList(<<"q1">>)])

ReplyObjects ==
    {ReplyObject(s, JNum(40), r, JList(<<>>), JList(<< <<"s", "q", "l">> >>)) :
        s \in ScoreValues, r \in RecommendationValues}
    \cup {ReplyObject(JNum(85), JNum(40), JStr("APROVADO"), f, g) :
        f \in ListValues, g \in ListValues}
    \cup {ReplyObject(JNum(85), JStr("n/a"), JStr("APROVADO"), JList(<<>>),
                      JList(<<>>)),
          MakeObj([analysis |-> Absent])}

\* JSON documents that are not objects.
ReplyNonObjects == {JList(<<>>), JNum(7), JNull}

ReplyTexts ==
    {<<JsonText(v)>> : v \in ReplyObjects \cup ReplyNonObjects}
    \cup {<<FenceJson, JsonText(ReplyObject(JNum(150), JNum(40), JStr("TALVEZ"),
                                            JList(<<>>), JList(<<>>))),
            FencePlain>>,
          <<FencePlain, JsonText(JNum(7)), FencePlain>>,
          <<FenceJson, JsonText(JNull)>>,
          <<Prose(3)>>, <<Prose(600)>>, <<>>,
          <<FenceJson, Prose(600), FencePlain>>,
          <<Prose(3), JsonText(MakeObj([analysis |-> Absent]))>>}

Completions ==
    {CallFailed, Completion(NoContent)} \cup {Completion(Content(x)) : x \in ReplyTexts}

(***************************************************************************)
(* State.                                                                  *)
(***************************************************************************)
Nil == [nil |-> TRUE]

VARIABLES
    pc,              \* position of the request being served
    candidate_data,  \* the candidate record handed to the scorer
    job_data,        \* the job record handed to the scorer
    completion,      \* outcome of the last call to the completion model
    analysis,        \* what analyze_candidate_compatibility returned or raised
    request,         \* the request body of the ranking endpoint
    USERS,           \* ids of the candidate rows of the store, in name order
    all_candidates,  \* rank_candidates: the pool it fetched
    i,               \* rank_candidates: index of the candidate in the loop
    ranked_candidates, \* rank_candidates: the entries collected so far
    MODEL_RESULTS,   \* the analysis-result history rows of the store
    dispositions,    \* rank_candidates: what happened to each candidate
    returned,        \* what the endpoint function returned or raised
    http,            \* the HTTP response of the endpoint
    candidates_data, \* search_talent_pool: the records handed to the ranker
    ranked_results,  \* search_talent_pool: what the ranker returned
    checked_out,     \* connections acquired from the pool and not released
    CANDIDATE_COMMENTS, \* the comment rows of the store, oldest first
    JOB_SKILLS,      \* the rows that associate a skill with a job
    op               \* the last call served by the data access endpoints

scorerVars == <<candidate_data, job_data, completion, analysis>>
rankVars == <<request, USERS, all_candidates, i, ranked_candidates,
              MODEL_RESULTS, dispositions, returned, http>>

searchVars == <<candidates_data, ranked_results>>
dbVars == <<checked_out, CANDIDATE_COMMENTS, JOB_SKILLS, op>>
otherVars == <<searchVars, dbVars>>

vars == <<pc, scorerVars, rankVars, otherVars>>

(***************************************************************************)
(* The scorer alone: SpecAnalyze draws a candidate, a job and the outcome  *)
(* of the model call, and applies analyze_candidate_compatibility.         *)
(***************************************************************************)
AnalyzeSkills == {"Python", "SQL", "Java"}

CandidateInputs ==
    {[id |-> 1, name |-> "A", skills |-> s] : s \in SeqsUpTo(AnalyzeSkills, MaxSkills)}

JobInputs ==
    {[id |-> 1, required_skills |-> s] : s \in SeqsUpTo(AnalyzeSkills, MaxSkills)}

InitAnalyze ==
    /\ pc = "start"
    /\ candidate_data \in CandidateInputs
    /\ job_data \in JobInputs
    /\ completion = Nil
    /\ analysis = Nil
    /\ request = Nil
    /\ USERS = <<>>
    /\ all_candidates = <<>>
    /\ i = 0
    /\ ranked_candidates = <<>>
    /\ MODEL_RESULTS = <<>>
    /\ dispositions = <<>>
    /\ returned = Nil
    /\ http = Nil
    /\ candidates_data = <<>>
    /\ ranked_results = <<>>
    /\ checked_out = 0
    /\ CANDIDATE_COMMENTS = <<>>
    /\ JOB_SKILLS = <<>>
    /\ op = Nil

\* ai_service.py 36-55: the prompt is built and the completion requested.
CallCompletion ==
    /\ UNCHANGED otherVars
    /\ pc = "start"
    /\ pc' = "awaiting"
    /\ UNCHANGED <<scorerVars, rankVars>>

\* The completion call raises.
CompletionRaises ==
    /\ UNCHANGED otherVars
    /\ pc = "awaiting"
    /\ completion' = CallFailed
    /\ \E order \in Enumerations(CommonSkills(candidate_data, job_data)) :
          analysis' = analyze_candidate_compatibility(candidate_data, job_data,
                                                      completion', order)
    /\ pc' = "done"
    /\ UNCHANGED <<candidate_data, job_data, rankVars>>

\* The completion call returns a message.
CompletionReturns ==
    /\ UNCHANGED otherVars
    /\ pc = "awaiting"
    /\ completion' \in Completions \ {CallFailed}
    /\ \E order \in Enumerations(CommonSkills(candidate_data, job_data)) :
          analysis' = analyze_candidate_compatibility(candidate_data, job_data,
                                                      completion', order)
    /\ pc' = "done"
    /\ UNCHANGED <<candidate_data, job_data, rankVars>>

NextAnalyze == CallCompletion \/ CompletionRaises \/ CompletionReturns

SpecAnalyze == InitAnalyze /\ [][NextAnalyze]_vars


(***************************************************************************)
(* Claims about the scorer (checked under SpecAnalyze).                    *)
(***************************************************************************)
AnalysisFields ==
    {"compatibility_score", "cultural_fit_score", "professional_fit_score",
     "ai_analysis", "red_flags", "strengths", "recommendation",
     "suggested_questions"}

AllowedRecommendations ==
    {JStr("APROVADO"), JStr("REPROVADO"), JStr("EM_ANALISE")}

ScoreInRange(x) == RatLeq(RatOfInt(0), x) /\ RatLeq(x, RatOfInt(100))

Analyzed == pc = "done" /\ analysis # Nil

\* How the model call of the state ended.
ModelCallFailed == completion = CallFailed
ReplyHasText == completion # Nil /\ completion.ok /\ completion.content.k = "text"
ReplyNotJson ==
    ReplyHasText /\ JsonLoads(StripFences(completion.content.text)).raised
ReplyJson ==
    ReplyHasText /\ ~JsonLoads(StripFences(completion.content.text)).raised
ReplyValue == JsonLoads(StripFences(completion.content.text)).value
ReplyWrongShape == ReplyJson /\ ReplyValue.t # "obj"
ReplyNonNumericScore ==
    /\ ReplyJson
    /\ ReplyValue.t = "obj"
    /\ \E k \in {"compatibility_score", "cultural_fit_score",
                 "professional_fit_score"} :
          PyFloat(DictGet(ReplyValue.o, k, JNum(0))).raised

\* C1: whatever the outcome of the model call, the result of
\* analyze_candidate_compatibility has a compatibility_score within [0,100]
\* and a recommendation that is APROVADO, REPROVADO or EM_ANALISE.
C1_ScoreAndRecommendationValid ==
    Analyzed =>
        /\ ~analysis.raised
        /\ ScoreInRange(analysis.value.compatibility_score)
        /\ analysis.value.recommendation \in AllowedRecommendations

\* C3: on both fallback paths (call failed, reply not JSON) the
\* professional_fit_score is 100 * |candidate skills /\ required skills| /
\* |required skills| when the job requires a skill, and 0 when it requires none.
C3_FallbackProfessionalFit ==
    (Analyzed /\ (ModelCallFailed \/ ReplyNotJson)) =>
        /\ ~analysis.raised
        /\ LET required == Range(job_data.required_skills)
               common == Range(candidate_data.skills) \cap required
               p == analysis.value.professional_fit_score
           IN IF required # {}
              THEN p.n * Cardinality(required) = 100 * Cardinality(common) * p.d
              ELSE p.n = 0

\* A job whose list of required skills repeats a skill, and a candidate who
\* has it, scored on the failed-call path.
C3_Witness ==
    /\ Analyzed
    /\ ModelCallFailed
    /\ Len(job_data.required_skills) > Cardinality(Range(job_data.required_skills))
    /\ analysis.value.professional_fit_score = RatOfInt(100)

\* C4: analyze_candidate_compatibility never raises and returns all the
\* fields; a reply that is not JSON, a JSON reply of the wrong shape or with a
\* non-numeric score and a failed call all end in the heuristic result.
C4_NeverRaisesAlwaysComplete ==
    Analyzed =>
        /\ ~analysis.raised
        /\ DOMAIN analysis.value = AnalysisFields
        /\ (ModelCallFailed \/ ReplyNotJson \/ ReplyWrongShape
              \/ ReplyNonNumericScore) =>
              /\ analysis.value.recommendation = JStr("EM_ANALISE")
              /\ analysis.value.cultural_fit_score = RatOfInt(50)
              /\ analysis.value.red_flags = JList(<<>>)
              /\ analysis.value.suggested_questions = JList(<<>>)

\* A JSON object whose score cannot be converted has been answered with the
\* heuristic result.
C4_Witness ==
    /\ Analyzed
    /\ ReplyNonNumericScore
    /\ ~analysis.raised
    /\ analysis.value.ai_analysis = FallbackText

\* C12: in every result of analyze_candidate_compatibility, on the parsed
\* path and on both fallback paths, red_flags and strengths are lists and
\* never null.
C12_ListsNeverNull ==
    Analyzed =>
        /\ ~analysis.raised
        /\ analysis.value.red_flags.t = "list"
        /\ analysis.value.strengths.t = "list"

\* C17: when the reply is not JSON, the result has cultural_fit_score 50,
\* compatibility_score 0.7 x professional_fit_score, recommendation
\* EM_ANALISE, the common skills of candidate and job as strengths, and
\* empty red_flags and suggested_questions.
C17_ParseFailureHeuristic ==
    (Analyzed /\ ReplyNotJson) =>
        /\ ~analysis.raised
        /\ analysis.value.cultural_fit_score = RatOfInt(50)
        /\ analysis.value.compatibility_score =
               RatMul(Rat(7, 10), analysis.value.professional_fit_score)
        /\ analysis.value.recommendation = JStr("EM_ANALISE")
        /\ analysis.value.strengths.t = "list"
        /\ Range(analysis.value.strengths.l) =
               Range(candidate_data.skills) \cap Range(job_data.required_skills)
        /\ Len(analysis.value.strengths.l) =
               Cardinality(Range(analysis.value.strengths.l))
        /\ analysis.value.red_flags = JList(<<>>)
        /\ analysis.value.suggested_questions = JList(<<>>)

\* A reply that is not JSON, for a candidate who has one of the two skills
\* the job requires.
C17_Witness ==
    /\ Analyzed
    /\ ReplyNotJson
    /\ Cardinality(Range(job_data.required_skills)) = 2
    /\ Len(analysis.value.strengths.l) = 1
    /\ analysis.value.compatibility_score = RatOfInt(35)

\* C18: for the same candidate and job, the result of the failed call and
\* the result of the reply that is not JSON agree on every field but
\* ai_analysis, which is the fixed text when the call failed.
C18_FallbackPathsAgree ==
    /\ (Analyzed /\ ReplyNotJson) =>
          /\ ~analysis.raised
          /\ \A f \in AnalysisFields \ {"ai_analysis"} :
                analysis.value[f] =
                    get_fallback_analysis(candidate_data, job_data,
                                          analysis.value.strengths.l)[f]
    /\ (Analyzed /\ ModelCallFailed) =>
          /\ ~analysis.raised
          /\ analysis.value.ai_analysis = FallbackText
          /\ \A f \in AnalysisFields \ {"ai_analysis"} :
                analysis.value[f] =
                    extract_info_from_text(<<>>, candidate_data, job_data,
                                           analysis.value.strengths.l)[f]

\* The call failed for a candidate who has both skills the job requires.
C18_Witness ==
    /\ Analyzed
    /\ ModelCallFailed
    /\ Len(analysis.value.strengths.l) = 2
    /\ analysis.value.professional_fit_score = RatOfInt(100)

\* The fields of the reply, by the kind of their default.
ScoreFields ==
    {"compatibility_score", "cultural_fit_score", "professional_fit_score"}

ListFields == {"red_flags", "strengths", "suggested_questions"}

\* The reply is a JSON object whose scores, where present, are numeric.
ReplyParsed == ReplyJson /\ ReplyValue.t = "obj" /\ ~ReplyNonNumericScore

\* The result is the parsed reply and its scores and lists default to 0
\* and to the empty list.
ParsedWithDefaults ==
    /\ ~analysis.raised
    /\ analysis.value.ai_analysis # FallbackText
    /\ \A f \in ScoreFields :
          f \notin DOMAIN ReplyValue.o => analysis.value[f] = RatOfInt(0)
    /\ \A f \in ListFields :
          f \notin DOMAIN ReplyValue.o => analysis.value[f] = JList(<<>>)
    /\ "analysis" \notin DOMAIN ReplyValue.o =>
          analysis.value.ai_analysis = JStr("")

\* C19 (as claimed): when the reply parses as a JSON object, every missing
\* field is defaulted, scores to 0, texts to the empty string and lists to
\* the empty list, and no missing field makes the parse raise or fall back.
C19_MissingFieldsDefaulted ==
    (Analyzed /\ ReplyParsed) =>
        /\ ParsedWithDefaults
        /\ "recommendation" \notin DOMAIN ReplyValue.o =>
              analysis.value.recommendation = JStr("")

\* C19 (amended): as claimed, but a missing recommendation is defaulted to
\* EM_ANALISE, not to the empty string.
C19_MissingFieldsDefaultedRecommendation ==
    (Analyzed /\ ReplyParsed) =>
        /\ ParsedWithDefaults
        /\ "recommendation" \notin DOMAIN ReplyValue.o =>
              analysis.value.recommendation = JStr("EM_ANALISE")

\* The reply is the empty JSON object.
C19_Witness ==
    /\ Analyzed
    /\ ReplyParsed
    /\ DOMAIN ReplyValue.o = {}
    /\ analysis.value.compatibility_score = RatOfInt(0)
    /\ analysis.value.recommendation = JStr("EM_ANALISE")


(***************************************************************************)
(* The store, as the ranking endpoint sees it.                             *)
(***************************************************************************)
CandidateIds == {1, 2, 3}

CandidateTable ==
    [id \in CandidateIds |->
        CASE id = 1 -> [id |-> 1, name |-> "A", email |-> "a@x",
                        skills |-> <<"Python", "SQL", "React">>]
          [] id = 2 -> [id |-> 2, name |-> "B", email |-> "b@x",
                        skills |-> <<"Java">>]
          [] id = 3 -> [id |-> 3, name |-> "C", email |-> "c@x",
                        skills |-> <<"Python">>]]

JobIds == {1, 2}
\* An id no job row has.
MissingJobIds == {9}

JobTable ==
    [id \in JobIds |->
        IF id = 1 THEN [id |-> 1, required_skills |-> <<"Python", "SQL">>]
                  ELSE [id |-> 2, required_skills |-> <<>>]]

\* The pools: the candidate rows present, in the order of their names.
Pools ==
    {p \in SeqsUpTo(CandidateIds, MaxPool) :
        \A a, b \in DOMAIN p : a # b => p[a] # p[b]}

\* CandidateRankingRequest as the validation of models.py lets it through:
\* limit and min_compatibility are Optional, so null is accepted.
RankingRequests ==
    {[job_id |-> j, limit |-> l, min_compatibility |-> m] :
        j \in JobIds \cup MissingJobIds,
        l \in {JNum(k) : k \in 1..MaxLimit} \cup {JNull},
        m \in {JNum(0), JNum(1), JNum(71), JNull}}

RankCompletions ==
    {CallFailed,
     Completion(Content(<<Prose(3)>>)),
     Completion(Content(<<JsonText(ReplyObject(JNum(85), JNum(40),
         JStr("APROVADO"), JList(<< <<"g", "a", "p">> >>), JList(<<>>)))>>)),
     Completion(Content(<<JsonText(ReplyObject(JNum(150), JNum(40),
         JStr("TALVEZ"), JList(<<>>), JList(<<>>)))>>)),
     Completion(Content(<<JsonText(ReplyObject(JNum(-5), JNum(40),
         JStr("REPROVADO"), JNull, JList(<<>>)))>>))}

(***************************************************************************)
(* Helpers of rank_candidates and save_model_result.                       *)
(***************************************************************************)
Separator == <<",", " ">>

\* sep.join(list)
RECURSIVE JoinWith(_, _)
JoinWith(sep, list) ==
    IF list = <<>> THEN <<>>
    ELSE IF Len(list) = 1 THEN list[1]
    ELSE list[1] \o sep \o JoinWith(sep, Tail(list))

\* ", ".join(list)
Join(list) == JoinWith(Separator, list)

\* Python truth value of a JSON value.
Truthy(x) ==
    CASE x.t = "null" -> FALSE
      [] x.t = "list" -> x.l # <<>>
      [] x.t = "str" -> x.s # ""
      [] x.t = "num" -> x.n # 0
      [] OTHER -> TRUE

\* database_service.py 203-228: the row handed to PRC_INSERT_MODEL_RESULT.
ModelResultRow(candidate_id, job_id, a) ==
    [user_id |-> candidate_id,
     job_id |-> job_id,
     score_afinidade_cultural |-> a.cultural_fit_score,
     score_compatibilidade_profissional |-> a.professional_fit_score,
     red_flags |-> IF Truthy(a.red_flags) THEN JStr(Join(a.red_flags.l)) ELSE JNull,
     recomendacao |-> a.recommendation,
     detalhes |-> a.ai_analysis]

\* main.py 155-165
RankingEntry(candidate_id, c, a) ==
    [candidate_id |-> candidate_id,
     candidate_name |-> c.name,
     candidate_email |-> c.email,
     compatibility_score |-> a.compatibility_score,
     cultural_fit_score |-> a.cultural_fit_score,
     professional_fit_score |-> a.professional_fit_score,
     ai_analysis |-> a.ai_analysis,
     red_flags |-> a.red_flags,
     recommendation |-> a.recommendation]

\* A mutant: the sort without reverse=True.
RECURSIVE InsertAscending(_, _)
InsertAscending(e, s) ==
    IF s = <<>> THEN <<e>>
    ELSE IF RatLess(e.compatibility_score, Head(s).compatibility_score)
    THEN <<e>> \o s
    ELSE <<Head(s)>> \o InsertAscending(e, Tail(s))

\* e placed behind every entry whose score is not smaller than its own.
RECURSIVE InsertByCompatibility(_, _)
InsertByCompatibility(e, s) ==
    IF s = <<>> THEN <<e>>
    ELSE IF RatLess(Head(s).compatibility_score, e.compatibility_score)
    THEN <<e>> \o s
    ELSE <<Head(s)>> \o InsertByCompatibility(e, Tail(s))

\* list.sort(key=compatibility_score, reverse=True): stable, descending.
RECURSIVE SortByCompatibility(_)
SortByCompatibility(s) ==
    IF s = <<>> THEN <<>>
    ELSE InsertByCompatibility(s[Len(s)], SortByCompatibility(Front(s)))

\* A mutant: the slice forgotten.
NoSlice(s, limit) == s

\* s[:limit]; s[:None] is s.
Slice(s, limit) ==
    IF limit.t = "null" THEN s ELSE SubSeq(s, 1, Min(limit.n, Len(s)))

\* A mutant: the threshold test dropped.
BelowMinimumNever(score, min_compatibility) == [raised |-> FALSE, value |-> FALSE]

\* analysis["compatibility_score"] < request.min_compatibility
BelowMinimum(score, min_compatibility) ==
    IF min_compatibility.t = "null"
    THEN [raised |-> TRUE, exc |-> "TypeError"]
    ELSE [raised |-> FALSE, value |-> RatLess(score, RatOfInt(min_compatibility.n))]

\* response_model=List[CandidateRankingResponse]: str, List[str], str.
ValidRankingResponse(body) ==
    \A k \in DOMAIN body :
        /\ body[k].ai_analysis.t = "str"
        /\ body[k].red_flags.t = "list"
        /\ body[k].recommendation.t = "str"

(***************************************************************************)
(* rank_candidates, one action per awaited step.                           *)
(* The connections these steps take from the pool are accounted for in    *)
(* SpecStore, where get_job_data and get_candidate_data are served alone.  *)
(***************************************************************************)
Init ==
    /\ pc = "rank_start"
    /\ request \in RankingRequests
    /\ USERS \in Pools
    /\ candidate_data = Nil
    /\ job_data = Nil
    /\ completion = Nil
    /\ analysis = Nil
    /\ all_candidates = <<>>
    /\ i = 0
    /\ ranked_candidates = <<>>
    /\ MODEL_RESULTS = <<>>
    /\ dispositions = <<>>
    /\ returned = Nil
    /\ http = Nil
    /\ candidates_data = <<>>
    /\ ranked_results = <<>>
    /\ checked_out = 0
    /\ CANDIDATE_COMMENTS = <<>>
    /\ JOB_SKILLS = <<>>
    /\ op = Nil

Disposition(id, fetch, call, outcome, saved) ==
    [id |-> id, fetch |-> fetch, call |-> call, outcome |-> outcome,
     saved |-> saved]

\* main.py 112: get_job_data found the job.
FetchJob ==
    /\ UNCHANGED otherVars
    /\ pc = "rank_start"
    /\ request.job_id \in JobIds
    /\ job_data' = JobTable[request.job_id]
    /\ pc' = "rank_pool"
    /\ UNCHANGED <<candidate_data, completion, analysis, rankVars>>

\* main.py 112-114: get_job_data returned None (no such job, or the query
\* failed): 404.
JobNotFound ==
    /\ UNCHANGED otherVars
    /\ pc = "rank_start"
    /\ returned' = [raised |-> TRUE, exc |-> "HTTPException", status |-> 404]
    /\ http' = [status |-> 404]
    /\ pc' = "done"
    /\ UNCHANGED <<scorerVars, request, USERS, all_candidates, i,
                   ranked_candidates, MODEL_RESULTS, dispositions>>

\* main.py 117-120: the pool; [] when there is none or the query failed.
FetchAllCandidates ==
    /\ UNCHANGED otherVars
    /\ pc = "rank_pool"
    /\ \E pool \in {USERS, <<>>} :
          /\ all_candidates' = pool
          /\ IF pool = <<>>
             THEN /\ returned' = [raised |-> FALSE, value |-> <<>>]
                  /\ http' = [status |-> 200, body |-> <<>>]
                  /\ pc' = "done"
                  /\ i' = i
             ELSE /\ i' = 1
                  /\ pc' = "rank_fetch"
                  /\ UNCHANGED <<returned, http>>
    /\ UNCHANGED <<scorerVars, request, USERS, ranked_candidates,
                   MODEL_RESULTS, dispositions>>

InLoop == pc = "rank_fetch" /\ i <= Len(all_candidates)

\* main.py 128: get_candidate_data returned the record.
FetchCandidate ==
    /\ UNCHANGED otherVars
    /\ InLoop
    /\ candidate_data' = CandidateTable[all_candidates[i]]
    /\ pc' = "rank_analyze"
    /\ UNCHANGED <<job_data, completion, analysis, rankVars>>

\* main.py 128-130, 167-169: get_candidate_data returned None (the query
\* failed) or raised (no connection): the candidate is skipped.
FetchCandidateFails ==
    /\ UNCHANGED otherVars
    /\ InLoop
    /\ \E fetch \in {"none", "raised"} :
          dispositions' = Append(dispositions,
              Disposition(all_candidates[i], fetch, "none", "skipped", FALSE))
    /\ i' = i + 1
    /\ UNCHANGED <<pc, scorerVars, request, USERS, all_candidates,
                   ranked_candidates, MODEL_RESULTS, returned, http>>

CallKind(c) == IF c.ok THEN "replied" ELSE "failed"

\* main.py 133-141: the candidate is analysed and compared with the
\* threshold.
AnalyzeCandidate ==
    /\ UNCHANGED otherVars
    /\ pc = "rank_analyze"
    /\ \E c \in RankCompletions,
          order \in Enumerations(CommonSkills(candidate_data, job_data)) :
          LET a == analyze_candidate_compatibility(candidate_data, job_data, c, order)
              below == IF a.raised THEN a
                       ELSE BelowMinimum(a.value.compatibility_score,
                                         request.min_compatibility)
          IN IF below.raised \/ below.value
             THEN /\ dispositions' = Append(dispositions,
                        Disposition(all_candidates[i], "ok", CallKind(c),
                            IF below.raised THEN "skipped" ELSE "below_min", FALSE))
                  /\ i' = i + 1
                  /\ pc' = "rank_fetch"
                  /\ candidate_data' = Nil
                  /\ UNCHANGED <<completion, analysis>>
             ELSE /\ completion' = c
                  /\ analysis' = a
                  /\ pc' = "rank_save"
                  /\ UNCHANGED <<candidate_data, dispositions, i>>
    /\ UNCHANGED <<job_data, request, USERS, all_candidates, ranked_candidates,
                   MODEL_RESULTS, returned, http>>

\* main.py 144-165: save_model_result (its failure is swallowed and its
\* result ignored), then the entry is appended.
SaveResult ==
    /\ UNCHANGED otherVars
    /\ pc = "rank_save"
    /\ \E saved \in BOOLEAN :
          /\ MODEL_RESULTS' =
                IF saved
                THEN Append(MODEL_RESULTS,
                            ModelResultRow(all_candidates[i], request.job_id,
                                           analysis.value))
                ELSE MODEL_RESULTS
          /\ dispositions' = Append(dispositions,
                Disposition(all_candidates[i], "ok", CallKind(completion),
                            "ranked", saved))
    /\ ranked_candidates' = Append(ranked_candidates,
          RankingEntry(all_candidates[i], candidate_data, analysis.value))
    /\ i' = i + 1
    /\ pc' = "rank_fetch"
    /\ candidate_data' = Nil
    /\ completion' = Nil
    /\ analysis' = Nil
    /\ UNCHANGED <<job_data, request, USERS, all_candidates, returned, http>>

\* main.py 171-175 and the response model of line 102.
RankFinish ==
    /\ UNCHANGED otherVars
    /\ pc = "rank_fetch"
    /\ i > Len(all_candidates)
    /\ LET body == Slice(SortByCompatibility(ranked_candidates), request.limit)
       IN /\ returned' = [raised |-> FALSE, value |-> body]
          /\ http' = IF ValidRankingResponse(body)
                     THEN [status |-> 200, body |-> body]
                     ELSE [status |-> 500]
    /\ pc' = "done"
    /\ UNCHANGED <<scorerVars, request, USERS, all_candidates, i,
                   ranked_candidates, MODEL_RESULTS, dispositions>>

Next ==
    \/ FetchJob
    \/ JobNotFound
    \/ FetchAllCandidates
    \/ FetchCandidate
    \/ FetchCandidateFails
    \/ AnalyzeCandidate
    \/ SaveResult
    \/ RankFinish

Spec == Init /\ [][Next]_vars


(***************************************************************************)
(* Claims about the ranking endpoint (checked under Spec).                 *)
(***************************************************************************)
RankReturned == pc = "done" /\ returned # Nil /\ ~returned.raised

Ids(entries) == [k \in DOMAIN entries |-> entries[k].candidate_id]

\* C2: the list rank_candidates returns is sorted by compatibility_score in
\* non-increasing order, has at most limit entries and holds no entry whose
\* score is below min_compatibility.
C2_RankingSortedTruncatedFiltered ==
    RankReturned =>
        LET r == returned.value
        IN /\ \A a, b \in DOMAIN r :
                a < b => RatLeq(r[b].compatibility_score, r[a].compatibility_score)
           /\ request.limit.t = "num" => Len(r) <= request.limit.n
           /\ request.min_compatibility.t = "num" =>
                \A k \in DOMAIN r :
                    ~RatLess(r[k].compatibility_score,
                             RatOfInt(request.min_compatibility.n))

\* Two candidates passed the threshold in increasing order of score, and the
\* limit of 1 kept the better one.
C2_Witness ==
    /\ RankReturned
    /\ request.limit = JNum(1)
    /\ request.min_compatibility = JNum(1)
    /\ Len(ranked_candidates) = 2
    /\ RatLess(ranked_candidates[1].compatibility_score,
               ranked_candidates[2].compatibility_score)
    /\ returned.value = <<ranked_candidates[2]>>

\* C5: a candidate whose fetch, analysis or persistence failed is skipped,
\* every candidate of the pool is still processed and the request completes
\* with the others' results.
C5_FailedCandidateSkipped ==
    (pc = "done" /\ all_candidates # <<>>) =>
        /\ returned # Nil /\ ~returned.raised
        /\ Len(dispositions) = Len(all_candidates)
        /\ \A k \in DOMAIN dispositions :
              LET d == dispositions[k]
              IN (d.fetch # "ok" \/ (d.outcome = "ranked" /\ ~d.saved)) =>
                    /\ d.outcome = "skipped"
                    /\ \A e \in DOMAIN returned.value :
                          returned.value[e].candidate_id # d.id

\* C7: job 1 requires {Python, SQL}, candidate 1 (A) has {Python, SQL, React},
\* candidate 2 (B) has {Java}. When every model call of the request failed, A
\* comes before B, A's professional_fit_score is 100, B's is 0, B is absent
\* when min_compatibility > 0, and A, once ranked, heads the full list.
AllCallsFailed ==
    \A k \in DOMAIN dispositions : dispositions[k].call \in {"failed", "none"}

C7_EndToEndFallbackRanking ==
    (RankReturned /\ request.job_id = 1 /\ AllCallsFailed) =>
        LET r == returned.value
        IN /\ \A k \in DOMAIN r :
                /\ r[k].candidate_id = 1 =>
                      r[k].professional_fit_score = RatOfInt(100)
                /\ r[k].candidate_id = 2 =>
                      r[k].professional_fit_score = RatOfInt(0)
           /\ \A a, b \in DOMAIN r :
                (r[a].candidate_id = 1 /\ r[b].candidate_id = 2) => a < b
           /\ (request.min_compatibility.t = "num"
                 /\ request.min_compatibility.n > 0) =>
                \A k \in DOMAIN r : r[k].candidate_id # 2
           /\ (\E k \in DOMAIN ranked_candidates :
                  ranked_candidates[k].candidate_id = 1) =>
                r[1].candidate_id = 1

\* B precedes A in the pool, both model calls failed, and the response lists
\* A before B.
C7_Witness ==
    /\ RankReturned
    /\ request.job_id = 1
    /\ AllCallsFailed
    /\ all_candidates = <<2, 1>>
    /\ Len(returned.value) = 2
    /\ Ids(returned.value) = <<1, 2>>
    /\ returned.value[1].professional_fit_score = RatOfInt(100)
    /\ returned.value[2].professional_fit_score = RatOfInt(0)


(***************************************************************************)
(* The talent-search fallback, _simple_text_search. Strings are lists of   *)
(* characters.                                                             *)
(***************************************************************************)
MinQueryLength == 3
MaxQueryLength == 3

Space == " "

LowerChar(c) == IF c = "A" THEN "a" ELSE c

\* str.lower()
Lower(str) == [k \in DOMAIN str |-> LowerChar(str[k])]

\* query in text
Substring(query, text) ==
    \E k \in 0..(Len(text) - Len(query)) :
        SubSeq(text, k + 1, k + Len(query)) = query

\* set(text.split()): the maximal runs of characters that are not spaces.
Words(text) ==
    {SubSeq(text, r[1], r[2]) :
        r \in {x \in (DOMAIN text) \X (DOMAIN text) :
                  /\ x[1] <= x[2]
                  /\ \A k \in x[1]..x[2] : text[k] # Space
                  /\ x[1] = 1 \/ text[x[1] - 1] = Space
                  /\ x[2] = Len(text) \/ text[x[2] + 1] = Space}}

LowerAll(list) == [k \in DOMAIN list |-> Lower(list[k])]

\* f"{name} {skills} {profile}", all lowercased
Haystack(candidate) ==
    Lower(candidate.name) \o <<Space>>
        \o JoinWith(<<Space>>, LowerAll(candidate.skills)) \o <<Space>>
        \o Lower(candidate.profile)

\* ai_service.py 303-322: the score of one candidate.
TextRelevance(candidate, query) ==
    LET query_lower == Lower(query)
        text == Haystack(candidate)
        query_words == Words(query_lower)
        common == query_words \cap Words(text)
    IN IF Substring(query_lower, text) THEN RatOfInt(100)
       ELSE IF query_words # {}
       THEN RatMul(Rat(Cardinality(common), Cardinality(query_words)),
                   RatOfInt(100))
       ELSE RatOfInt(0)

\* A mutant: the sort without reverse=True.
RECURSIVE InsertRelevanceAscending(_, _)
InsertRelevanceAscending(e, s) ==
    IF s = <<>> THEN <<e>>
    ELSE IF RatLess(e.relevance_score, Head(s).relevance_score)
    THEN <<e>> \o s
    ELSE <<Head(s)>> \o InsertRelevanceAscending(e, Tail(s))

\* A mutant: the entry goes in front of the entries of equal score.
RECURSIVE InsertBeforeTies(_, _)
InsertBeforeTies(e, s) ==
    IF s = <<>> THEN <<e>>
    ELSE IF RatLeq(Head(s).relevance_score, e.relevance_score)
    THEN <<e>> \o s
    ELSE <<Head(s)>> \o InsertBeforeTies(e, Tail(s))

\* e placed behind every entry whose score is not smaller than its own.
RECURSIVE InsertByRelevance(_, _)
InsertByRelevance(e, s) ==
    IF s = <<>> THEN <<e>>
    ELSE IF RatLess(Head(s).relevance_score, e.relevance_score)
    THEN <<e>> \o s
    ELSE <<Head(s)>> \o InsertByRelevance(e, Tail(s))

\* list.sort(key=relevance_score, reverse=True): stable, descending.
RECURSIVE SortByRelevance(_)
SortByRelevance(s) ==
    IF s = <<>> THEN <<>>
    ELSE InsertByRelevance(s[Len(s)], SortByRelevance(Front(s)))

\* A mutant: nothing is dropped.
KeepAll(scored) == scored

\* [c for c in scored if c["relevance_score"] > 0]
PositiveOnly(scored) ==
    SelectSeq(scored, LAMBDA c : RatLess(RatOfInt(0), c.relevance_score))

\* {**candidate, "relevance_score": score}
WithRelevance(candidate, score) ==
    [k \in DOMAIN candidate \cup {"relevance_score"} |->
        IF k = "relevance_score" THEN score ELSE candidate[k]]

simple_text_search(candidates, query) ==
    PositiveOnly(SortByRelevance(
        [k \in DOMAIN candidates |->
            WithRelevance(candidates[k], TextRelevance(candidates[k], query))]))

(***************************************************************************)
(* The talent-search endpoint on its fallback path.                        *)
(***************************************************************************)
SearchCandidateIds == {1, 2, 3, 4}

\* get_candidate_data: profile is always "".
SearchTable ==
    [id \in SearchCandidateIds |->
        CASE id = 1 -> [id |-> 1, name |-> <<"A", "a", "b">>, email |-> "1@x",
                        skills |-> <<>>, profile |-> <<>>]
          [] id = 2 -> [id |-> 2, name |-> <<"b">>, email |-> "2@x",
                        skills |-> << <<"A">> >>, profile |-> <<>>]
          [] id = 3 -> [id |-> 3, name |-> <<"a">>, email |-> "3@x",
                        skills |-> << <<"b">> >>, profile |-> <<>>]
          [] id = 4 -> [id |-> 4, name |-> <<"b">>, email |-> "4@x",
                        skills |-> <<>>, profile |-> <<>>]]

SearchPools ==
    {p \in SeqsUpTo(SearchCandidateIds, MaxPool) :
        \A a, b \in DOMAIN p : a # b => p[a] # p[b]}

QueryChars == {"a", "b", "A", Space}

\* TalentPoolSearchRequest: query of at least 3 characters, Optional limit.
SearchRequests ==
    {[query |-> q, limit |-> l] :
        q \in UNION {[1..n -> QueryChars] : n \in MinQueryLength..MaxQueryLength},
        l \in {JNum(k) : k \in 1..MaxLimit} \cup {JNull}}

InitSearch ==
    /\ pc = "search_start"
    /\ request \in SearchRequests
    /\ USERS \in SearchPools
    /\ candidate_data = Nil
    /\ job_data = Nil
    /\ completion = Nil
    /\ analysis = Nil
    /\ all_candidates = <<>>
    /\ i = 0
    /\ ranked_candidates = <<>>
    /\ MODEL_RESULTS = <<>>
    /\ dispositions = <<>>
    /\ returned = Nil
    /\ http = Nil
    /\ candidates_data = <<>>
    /\ ranked_results = <<>>
    /\ checked_out = 0
    /\ CANDIDATE_COMMENTS = <<>>
    /\ JOB_SKILLS = <<>>
    /\ op = Nil

\* A mutant: the level of a candidate is filled in.
SearchRecordWithLevel(c) ==
    [id |-> c.id, name |-> c.name, email |-> c.email, skills |-> c.skills,
     profile |-> c.profile,
     level |-> IF c.id = 1 THEN <<"j", "r">> ELSE <<>>]

\* main.py 204-211
SearchRecord(c) ==
    [id |-> c.id, name |-> c.name, email |-> c.email, skills |-> c.skills,
     profile |-> c.profile, level |-> <<>>]

\* main.py 194-211: the pool is fetched and each record with it; a record
\* whose fetch returned None is left out.
SearchFetchCandidates ==
    /\ pc = "search_start"
    /\ USERS # <<>>
    /\ all_candidates' = USERS
    /\ \E fetched \in SUBSET DOMAIN USERS :
          candidates_data' =
              LET kept == SelectSeq(USERS, LAMBDA id :
                              \E k \in fetched : USERS[k] = id)
              IN [k \in DOMAIN kept |-> SearchRecord(SearchTable[kept[k]])]
    /\ pc' = "search_call"
    /\ UNCHANGED <<scorerVars, request, USERS, i, ranked_candidates,
                   MODEL_RESULTS, dispositions, returned, http, ranked_results,
                   dbVars>>

\* main.py 194-197: no candidates (or the query failed): [].
SearchNoCandidates ==
    /\ pc = "search_start"
    /\ all_candidates' = <<>>
    /\ returned' = [raised |-> FALSE, value |-> <<>>]
    /\ http' = [status |-> 200, body |-> <<>>]
    /\ pc' = "done"
    /\ UNCHANGED <<scorerVars, request, USERS, i, ranked_candidates,
                   MODEL_RESULTS, dispositions, searchVars, dbVars>>

\* "Relevancia: {score:.1f}%": the score in tenths, rounded.
Tenths(score) == (20 * score.n + score.d) \div (2 * score.d)

\* main.py 221-230
SearchEntry(c) ==
    [candidate_id |-> c.id, name |-> c.name, email |-> c.email,
     skills |-> c.skills, ai_summary |-> [tenths |-> Tenths(c.relevance_score)]]

\* ai_service.py 252-255 and main.py 219-232: the completion call failed,
\* and the text search answers.
SearchFallback ==
    /\ pc = "search_call"
    /\ completion' = CallFailed
    /\ ranked_results' = simple_text_search(candidates_data, request.query)
    /\ LET results == Slice(ranked_results', request.limit)
           body == [k \in DOMAIN results |-> SearchEntry(results[k])]
       IN /\ returned' = [raised |-> FALSE, value |-> body]
          /\ http' = [status |-> 200, body |-> body]
    /\ pc' = "done"
    /\ UNCHANGED <<candidate_data, job_data, analysis, request, USERS,
                   all_candidates, i, ranked_candidates, MODEL_RESULTS,
                   dispositions, candidates_data, dbVars>>

NextSearch == SearchFetchCandidates \/ SearchNoCandidates \/ SearchFallback

SpecSearch == InitSearch /\ [][NextSearch]_vars


(***************************************************************************)
(* Claims about the talent-search fallback (checked under SpecSearch).     *)
(***************************************************************************)
FallbackAnswered == pc = "done" /\ completion = CallFailed

QueryLower == Lower(request.query)

HasWordOverlap(c) == Words(Haystack(c)) \cap Words(QueryLower) # {}
HasSubstring(c) == Substring(QueryLower, Haystack(c))

InResults(id) == \E k \in DOMAIN ranked_results : ranked_results[k].id = id

\* C8 (as claimed): no candidate whose haystack shares no word with the
\* query's words appears in the fallback result.
C8_ZeroOverlapDropped ==
    FallbackAnswered =>
        \A k \in DOMAIN ranked_results : HasWordOverlap(ranked_results[k])

\* C8 (amended): the fallback result holds exactly the candidates whose
\* haystack contains the lowercased query as a substring or shares a word
\* with it; a candidate with neither is dropped.
C8_NoMatchDropped ==
    FallbackAnswered =>
        \A k \in DOMAIN candidates_data :
            InResults(candidates_data[k].id) <=>
                (HasSubstring(candidates_data[k]) \/ HasWordOverlap(candidates_data[k]))

\* One candidate was dropped for matching nothing while another was kept on
\* a substring match that shares no whole word with the query.
C8_Witness ==
    /\ FallbackAnswered
    /\ \E k \in DOMAIN candidates_data :
          /\ ~HasSubstring(candidates_data[k])
          /\ ~HasWordOverlap(candidates_data[k])
          /\ ~InResults(candidates_data[k].id)
    /\ \E k \in DOMAIN ranked_results :
          /\ HasSubstring(ranked_results[k])
          /\ ~HasWordOverlap(ranked_results[k])

\* C9 (as claimed): a candidate whose haystack contains the query scores 100
\* and precedes every candidate that matches through word overlap only.
C9_SubstringBeforeWordOverlap ==
    FallbackAnswered =>
        \A a, b \in DOMAIN ranked_results :
            (HasSubstring(ranked_results[a]) /\ ~HasSubstring(ranked_results[b])) =>
                /\ ranked_results[a].relevance_score = RatOfInt(100)
                /\ a < b

\* C9 (amended): a candidate whose haystack contains the query scores 100 and
\* precedes every candidate that has only part of the query's words (and so
\* scores below 100), whatever the order of the pool.
PartialOverlap(c) ==
    /\ ~HasSubstring(c)
    /\ Words(QueryLower) \cap Words(Haystack(c)) # Words(QueryLower)

C9_SubstringBeforePartialOverlap ==
    FallbackAnswered =>
        \A a, b \in DOMAIN ranked_results :
            HasSubstring(ranked_results[a]) =>
                /\ ranked_results[a].relevance_score = RatOfInt(100)
                /\ PartialOverlap(ranked_results[b]) => a < b

\* The substring match came after a partial match in the pool and precedes
\* it in the result.
C9_Witness ==
    /\ FallbackAnswered
    /\ Len(candidates_data) = 2
    /\ PartialOverlap(candidates_data[1])
    /\ HasSubstring(candidates_data[2])
    /\ Len(ranked_results) = 2
    /\ ranked_results[1].id = candidates_data[2].id
    /\ ranked_results[2].id = candidates_data[1].id

(***************************************************************************)
(* The talent search on the path of the criteria: the reply of the model   *)
(* is read by json.loads and the candidates are scored against it.         *)
(***************************************************************************)
Qualquer == <<"q", "u", "a", "l", "q", "u", "e", "r">>

\* [s.lower() for s in x]: a list of strings, or a string taken character
\* by character; anything else cannot be iterated or lowered.
LoweredItems(x) ==
    CASE x.t = "list" -> [raised |-> FALSE, value |-> LowerAll(x.l)]
      [] x.t = "str" ->
            [raised |-> FALSE, value |-> [k \in DOMAIN x.s |-> <<LowerChar(x.s[k])>>]]
      [] OTHER -> [raised |-> TRUE, exc |-> "TypeError"]

\* A mutant: None is read as the empty string.
LoweredTextOrEmpty(x) ==
    IF x.t = "str" THEN [raised |-> FALSE, value |-> Lower(x.s)]
    ELSE IF x.t = "null" THEN [raised |-> FALSE, value |-> <<>>]
    ELSE [raised |-> TRUE, exc |-> "AttributeError"]

\* x.lower() of a value fetched with .get(key, "")
LoweredText(x) ==
    IF x.t = "str" THEN [raised |-> FALSE, value |-> Lower(x.s)]
    ELSE [raised |-> TRUE, exc |-> "AttributeError"]

\* A mutant: every listed skill the candidate has counts, over the number
\* of distinct required skills.
SkillPointsCountingRepeats(candidate_skills, required_skills) ==
    IF required_skills # <<>>
    THEN RatMul(Rat(Cardinality({k \in DOMAIN required_skills :
                                    required_skills[k] \in candidate_skills}),
                    Cardinality(Range(required_skills))), RatOfInt(50))
    ELSE RatOfInt(0)

\* ai_service.py 271-273: the set of the skills in common over the length
\* of the list of required skills.
SkillPoints(candidate_skills, required_skills) ==
    LET matching_skills == candidate_skills \cap Range(required_skills)
    IN  IF required_skills # <<>>
        THEN RatMul(Rat(Cardinality(matching_skills), Len(required_skills)),
                    RatOfInt(50))
        ELSE RatOfInt(0)

\* candidate.get(key, "").lower()
CandidateText(candidate, key) ==
    IF key \in DOMAIN candidate THEN Lower(candidate[key]) ELSE <<>>

\* ai_service.py 266-286: the score of one candidate against the criteria
\* (a dict).
CriteriaRelevance(candidate, criteria) ==
    LET candidate_skills == Range(LowerAll(candidate.skills))
        required_skills == LoweredItems(DictGet(criteria, "skills", JList(<<>>)))
        required_level == LoweredText(DictGet(criteria, "level", JStr(<<>>)))
        required_area == LoweredText(DictGet(criteria, "area", JStr(<<>>)))
        candidate_level == CandidateText(candidate, "level")
        candidate_area == CandidateText(candidate, "area")
        by_skills == SkillPoints(candidate_skills, required_skills.value)
        by_level ==
            IF /\ required_level.value # <<>>
               /\ required_level.value # Qualquer
               /\ \/ Substring(required_level.value, candidate_level)
                  \/ Substring(candidate_level, required_level.value)
            THEN 30 ELSE 0
        by_area ==
            IF /\ required_area.value # <<>>
               /\ Substring(required_area.value, candidate_area)
            THEN 20 ELSE 0
    IN  IF required_skills.raised THEN required_skills
        ELSE IF required_level.raised THEN required_level
        ELSE IF required_area.raised THEN required_area
        ELSE [raised |-> FALSE,
              value |-> Rat(by_skills.n + (by_level + by_area) * by_skills.d,
                            by_skills.d)]

\* ai_service.py 257-295: every candidate is kept, sorted by its score; a
\* value that is no dict has no .get, which the first candidate meets.
rank_candidates_by_criteria(candidates, criteria) ==
    LET scores == [k \in DOMAIN candidates |->
                      CriteriaRelevance(candidates[k], criteria.o)]
    IN  IF candidates = <<>> THEN [raised |-> FALSE, value |-> <<>>]
        ELSE IF criteria.t # "obj"
        THEN [raised |-> TRUE, exc |-> "AttributeError"]
        ELSE IF \E k \in DOMAIN candidates : scores[k].raised
        THEN [raised |-> TRUE, exc |-> "Exception"]
        ELSE [raised |-> FALSE,
              value |-> SortByRelevance(
                  [k \in DOMAIN candidates |->
                      WithRelevance(candidates[k], scores[k].value)])]

\* A mutant: a ranking that raised is answered with no candidates.
search_talent_pool_unguarded(query, candidates, reply) ==
    LET loaded == JsonLoads(reply.content.text)
        ranked == rank_candidates_by_criteria(candidates, loaded.value)
    IN  IF ~reply.ok \/ reply.content.k = "none" THEN
            simple_text_search(candidates, query)
        ELSE IF loaded.raised THEN simple_text_search(candidates, query)
        ELSE IF ranked.raised THEN <<>>
        ELSE ranked.value

\* ai_service.py 199-255: whatever is raised by the call, by json.loads or
\* by the ranking is answered by the text search.
search_talent_pool(query, candidates, reply) ==
    LET loaded == JsonLoads(reply.content.text)
        ranked == rank_candidates_by_criteria(candidates, loaded.value)
    IN  IF ~reply.ok \/ reply.content.k = "none" THEN
            simple_text_search(candidates, query)
        ELSE IF loaded.raised THEN simple_text_search(candidates, query)
        ELSE IF ranked.raised THEN simple_text_search(candidates, query)
        ELSE ranked.value

\* The criteria the model may reply with.
Criteria(skills, level, area) ==
    MakeObj([skills |-> skills, level |-> level, area |-> area])

SearchReplies ==
    {CallFailed,
     Completion(NoContent),
     Completion(Content(<<Prose(3)>>)),
     Completion(Content(<<JsonText(JList(<<>>))>>)),
     Completion(Content(<<JsonText(Criteria(Absent, Absent, Absent))>>)),
     Completion(Content(<<JsonText(Criteria(JList(<< <<"a">> >>),
                                            JStr(Qualquer), JStr(<<>>)))>>)),
     Completion(Content(<<JsonText(Criteria(JList(<< <<"a">>, <<"b">> >>),
                                            JStr(<<"s", "r">>), JStr(<<"x">>)))>>)),
     Completion(Content(<<JsonText(Criteria(JList(<< <<"a">> >>),
                                            JStr(Qualquer), JNull))>>)),
     Completion(Content(<<JsonText(Criteria(JNull, Absent, Absent))>>)),
     Completion(Content(<<JsonText(Criteria(JList(<< <<"a">> >>),
                                            JNull, JStr(<<>>)))>>))}

CriteriaQueries == {<<"a", "a", "b">>, <<"a", " ", "b">>, <<"b", " ", "A">>}

CriteriaRequests ==
    {[query |-> q, limit |-> l] :
        q \in CriteriaQueries,
        l \in {JNum(k) : k \in 1..MaxLimit} \cup {JNull}}

InitCriteria ==
    /\ pc = "search_start"
    /\ request \in CriteriaRequests
    /\ USERS \in SearchPools
    /\ candidate_data = Nil
    /\ job_data = Nil
    /\ completion = Nil
    /\ analysis = Nil
    /\ all_candidates = <<>>
    /\ i = 0
    /\ ranked_candidates = <<>>
    /\ MODEL_RESULTS = <<>>
    /\ dispositions = <<>>
    /\ returned = Nil
    /\ http = Nil
    /\ candidates_data = <<>>
    /\ ranked_results = <<>>
    /\ checked_out = 0
    /\ CANDIDATE_COMMENTS = <<>>
    /\ JOB_SKILLS = <<>>
    /\ op = Nil

\* main.py 213-232: the call of the service and the response built from
\* what it returned.
SearchCall ==
    /\ pc = "search_call"
    /\ \E reply \in SearchReplies :
          /\ completion' = reply
          /\ ranked_results' =
                 search_talent_pool(request.query, candidates_data, reply)
    /\ LET results == Slice(ranked_results', request.limit)
           body == [k \in DOMAIN results |-> SearchEntry(results[k])]
       IN /\ returned' = [raised |-> FALSE, value |-> body]
          /\ http' = [status |-> 200, body |-> body]
    /\ pc' = "done"
    /\ UNCHANGED <<candidate_data, job_data, analysis, request, USERS,
                   all_candidates, i, ranked_candidates, MODEL_RESULTS,
                   dispositions, candidates_data, dbVars>>

NextCriteria == SearchFetchCandidates \/ SearchNoCandidates \/ SearchCall

SpecCriteria == InitCriteria /\ [][NextCriteria]_vars

\* The service answered from the criteria of the model.
CriteriaAnswered ==
    /\ pc = "done"
    /\ candidates_data # <<>>
    /\ completion # Nil
    /\ ~rank_candidates_by_criteria(candidates_data,
           IF completion.ok /\ completion.content.k = "text"
              /\ ~JsonLoads(completion.content.text).raised
           THEN JsonLoads(completion.content.text).value ELSE JNull).raised

\* C11: on either path the list search_talent_pool returns holds only
\* candidates whose relevance_score is above 0, in non-increasing order of
\* relevance_score.
C11_PositiveAndSorted ==
    (pc = "done" /\ completion # Nil) =>
        /\ \A k \in DOMAIN ranked_results :
              RatLess(RatOfInt(0), ranked_results[k].relevance_score)
        /\ \A a, b \in DOMAIN ranked_results :
              a < b => RatLeq(ranked_results[b].relevance_score,
                              ranked_results[a].relevance_score)

(***************************************************************************)
(* The data access endpoints and the connection pool. Each call is served  *)
(* whole: the methods of DatabaseService hold no await. An outcome names   *)
(* what the database does to one use of a connection: "down" when          *)
(* db.get_connection() raises, "error" when a statement raises on the      *)
(* connection acquired, "ok" otherwise.                                    *)
(***************************************************************************)
PoolMax == 10
MaxComments == 2

ConnOutcomes == {"down", "error", "ok"}

\* An id no candidate row has.
MissingCandidateIds == {9}
CommentCandidateIds == {1}

\* The value read from cursor.var(oracledb.NUMBER), a variable made after
\* the INSERT and never bound to it: the driver decides. "raises" is the
\* read of a variable that holds nothing, "id" the generated id the code
\* presumes.
IdReads == {"raises", "id"}

CreatedBy == "hr"

CommentTexts == {"x", "y"}

TagLists ==
    {<<>>,
     << <<"a">>, <<"b">> >>,
     << <<"a", ",", " ", "b">> >>,
     << <<>> >>}

\* CommentRequest: comment of 1 to 2000 characters, tags Optional.
CommentRequests ==
    {[comment |-> c, tags |-> t] :
        c \in CommentTexts, t \in {JList(l) : l \in TagLists} \cup {JNull}}

\* str.find(sep) + 1: the first place sep occurs in str, 0 when nowhere.
Find(str, sep) ==
    LET hits == {k \in 1..(Len(str) - Len(sep) + 1) :
                    SubSeq(str, k, k + Len(sep) - 1) = sep}
    IN IF hits = {} THEN 0 ELSE CHOOSE k \in hits : \A h \in hits : k <= h

\* str.split(sep)
RECURSIVE Split(_, _)
Split(str, sep) ==
    LET k == Find(str, sep) IN
    IF k = 0 THEN <<str>>
    ELSE <<SubSeq(str, 1, k - 1)>>
         \o Split(SubSeq(str, k + Len(sep), Len(str)), sep)

\* database_service.py 273: ", ".join(tags) if tags else None
TagsColumn(tags) ==
    IF tags.t = "list" /\ tags.l # <<>> THEN JStr(Join(tags.l)) ELSE JNull

\* database_service.py 321: row[2].split(", ") if row[2] else []
TagsOfColumn(column) ==
    IF column.t = "str" /\ column.s # <<>>
    THEN Split(column.s, Separator) ELSE <<>>

\* comment_text is a CLOB and the row is handed on as fetched: a LOB, or a
\* str when the driver is set to fetch LOBs as strings.
FetchClob(text, lob) == [t |-> IF lob THEN "lob" ELSE "str", s |-> text]

\* database_service.py 16-69. The row not found returns at line 31 with the
\* connection held; with the pool down, conn is unbound at line 67 and the
\* handler itself raises.
get_candidate_data(candidate_id, outcome) ==
    CASE outcome = "down" ->
            [raised |-> TRUE, value |-> Nil, leaked |-> 0]
      [] outcome = "error" ->
            [raised |-> FALSE, value |-> Nil, leaked |-> 0]
      [] outcome = "ok" /\ candidate_id \notin CandidateIds ->
            [raised |-> FALSE, value |-> Nil, leaked |-> 1]
      [] OTHER ->
            [raised |-> FALSE, value |-> CandidateTable[candidate_id],
             leaked |-> 0]

\* A mutant: a job is found under every id.
get_job_data_any(job_id, outcome) ==
    [value |-> JobTable[IF job_id \in JobIds THEN job_id ELSE 1], leaked |-> 0]

\* database_service.py 71-134. The row not found returns at line 88 with
\* the connection held.
get_job_data(job_id, outcome) ==
    CASE outcome \in {"down", "error"} ->
            [value |-> Nil, leaked |-> 0]
      [] outcome = "ok" /\ job_id \notin JobIds ->
            [value |-> Nil, leaked |-> 1]
      [] OTHER ->
            [value |-> JobTable[job_id], leaked |-> 0]

\* The row of CANDIDATE_COMMENTS the INSERT of lines 275-284 writes: id is
\* the identity column, created_at the clock of the database, which moves
\* on between two inserts.
InsertedRow(store, candidate_id, comment, tags) ==
    [id |-> Len(store.rows) + 1,
     candidate_id |-> candidate_id,
     comment_text |-> comment,
     tags |-> TagsColumn(tags),
     created_at |-> Len(store.rows) + 1,
     created_by |-> CreatedBy]

\* database_service.py 245-302. CREATE TABLE commits by itself; "error" is
\* the INSERT raising. Every path after the acquisition releases.
save_comment(store, candidate_id, comment, tags, outcome, idread) ==
    IF outcome = "down" THEN [value |-> JNull, store |-> store]
    ELSE IF outcome = "error" \/ idread = "raises"
    THEN [value |-> JNull, store |-> [store EXCEPT !.created = TRUE]]
    ELSE [value |-> JNum(Len(store.rows) + 1),
          store |-> [created |-> TRUE,
                     rows |-> Append(store.rows,
                         InsertedRow(store, candidate_id, comment, tags))]]

\* database_service.py 320-328
CommentOf(row, lob) ==
    [id |-> row.id,
     comment |-> FetchClob(row.comment_text, lob),
     tags |-> TagsOfColumn(row.tags),
     created_at |-> row.created_at,
     created_by |-> row.created_by]

\* A mutant: ORDER BY created_at without DESC.
RECURSIVE InsertOldestFirst(_, _)
InsertOldestFirst(e, s) ==
    IF s = <<>> THEN <<e>>
    ELSE IF e.created_at < Head(s).created_at THEN <<e>> \o s
    ELSE <<Head(s)>> \o InsertOldestFirst(e, Tail(s))

\* e placed before the first row older than it.
RECURSIVE InsertNewestFirst(_, _)
InsertNewestFirst(e, s) ==
    IF s = <<>> THEN <<e>>
    ELSE IF Head(s).created_at < e.created_at THEN <<e>> \o s
    ELSE <<Head(s)>> \o InsertNewestFirst(e, Tail(s))

\* WHERE candidate_id = :candidate_id ORDER BY created_at DESC
RECURSIVE SelectComments(_, _)
SelectComments(rows, candidate_id) ==
    IF rows = <<>> THEN <<>>
    ELSE IF rows[Len(rows)].candidate_id = candidate_id
    THEN InsertNewestFirst(rows[Len(rows)],
                           SelectComments(Front(rows), candidate_id))
    ELSE SelectComments(Front(rows), candidate_id)

\* database_service.py 304-338: [] when the pool is down, when the query
\* raises and when the table is not there yet; the connection is released
\* on every path.
get_candidate_comments(store, candidate_id, outcome, lob) ==
    IF outcome # "ok" \/ ~store.created THEN <<>>
    ELSE LET rows == SelectComments(store.rows, candidate_id)
         IN [k \in DOMAIN rows |-> CommentOf(rows[k], lob)]

\* main.py 239-280. CommentResponse wants comment: str, so a LOB fails its
\* validation and the handler of Exception answers 500.
add_comment(store, candidate_id, req, o1, o2, o3, idread, lob) ==
    LET c == get_candidate_data(candidate_id, o1)
        s == save_comment(store, candidate_id, req.comment, req.tags,
                          o2, idread)
        comments == get_candidate_comments(s.store, candidate_id, o3, lob)
        found == {k \in DOMAIN comments : comments[k].id = s.value.n}
        saved_comment == comments[CHOOSE k \in found : \A h \in found : k <= h]
        failed(status, st, leaked) ==
            [status |-> status, store |-> st, leaked |-> leaked]
    IN  IF c.raised THEN failed(500, store, 0)
        ELSE IF c.value = Nil THEN failed(404, store, c.leaked)
        ELSE IF s.value.t = "null" THEN failed(500, s.store, 0)
        ELSE IF found = {} THEN failed(500, s.store, 0)
        ELSE IF saved_comment.comment.t # "str" THEN failed(500, s.store, 0)
        ELSE [status |-> 200, store |-> s.store, leaked |-> 0,
              comments |-> comments,
              response |-> [comment_id |-> saved_comment.id,
                            candidate_id |-> candidate_id,
                            comment |-> saved_comment.comment.s,
                            tags |-> saved_comment.tags,
                            created_at |-> saved_comment.created_at,
                            created_by |-> saved_comment.created_by]]

\* main.py 283-303
get_comments(store, candidate_id, outcome, lob) ==
    LET comments == get_candidate_comments(store, candidate_id, outcome, lob)
    IN  IF \E k \in DOMAIN comments : comments[k].comment.t # "str"
        THEN [status |-> 500, response |-> <<>>]
        ELSE [status |-> 200,
              response |-> [k \in DOMAIN comments |->
                  [comment_id |-> comments[k].id,
                   candidate_id |-> candidate_id,
                   comment |-> comments[k].comment.s,
                   tags |-> comments[k].tags,
                   created_at |-> comments[k].created_at,
                   created_by |-> comments[k].created_by]]]

\* main.py 520-545
get_job(job_id, outcome) ==
    LET job == get_job_data(job_id, outcome)
    IN  [status |-> IF job.value = Nil THEN 404 ELSE 200,
         leaked |-> job.leaked]

\* main.py 679-724: the handler of Exception answers 500 and releases
\* nothing.
get_candidate_model_results(candidate_id, outcome) ==
    CASE outcome = "down" -> [status |-> 500, leaked |-> 0]
      [] outcome = "error" -> [status |-> 500, leaked |-> 1]
      [] OTHER -> [status |-> 200, leaked |-> 0]

\* What one call of add_comment meets, in the order it meets it: the three
\* uses of a connection, the read of the id and the fetch of the CLOB. A
\* choice the call never comes to is left at its first value.
AddCommentRuns ==
    {r \in [o1 : ConnOutcomes, o2 : ConnOutcomes, idread : IdReads,
            o3 : ConnOutcomes, lob : BOOLEAN] :
        /\ (r.o1 # "ok") => (r.o2 = "ok")
        /\ (r.o1 # "ok" \/ r.o2 # "ok") => (r.idread = "id")
        /\ (r.o1 # "ok" \/ r.o2 # "ok" \/ r.idread # "id") => (r.o3 = "ok")
        /\ (r.o1 # "ok" \/ r.o2 # "ok" \/ r.idread # "id" \/ r.o3 # "ok")
               => ~r.lob}

\* database_service.py 449-492 and main.py 431-443: the rows, or [] when
\* the pool is down or the query raises; the endpoint answers 200 with what
\* it was given.
list_users(users, outcome) ==
    [status |-> 200, response |-> IF outcome = "ok" THEN users ELSE <<>>]

\* pool.acquire() waits while all the connections of the pool are out.
CanAcquire(outcome) == outcome = "down" \/ checked_out < PoolMax

InitStore ==
    /\ pc = "store"
    /\ request = Nil
    /\ USERS = <<1, 2, 3>>
    /\ candidate_data = Nil
    /\ job_data = Nil
    /\ completion = Nil
    /\ analysis = Nil
    /\ all_candidates = <<>>
    /\ i = 0
    /\ ranked_candidates = <<>>
    /\ MODEL_RESULTS = <<>>
    /\ dispositions = <<>>
    /\ returned = Nil
    /\ http = Nil
    /\ candidates_data = <<>>
    /\ ranked_results = <<>>
    /\ checked_out = 0
    /\ CANDIDATE_COMMENTS = [created |-> FALSE, rows |-> <<>>]
    /\ JOB_SKILLS = <<>>
    /\ op = Nil

notStoreVars == <<pc, scorerVars, rankVars, searchVars, JOB_SKILLS>>

GetJob ==
    /\ pc = "store"
    /\ \E job_id \in JobIds \cup MissingJobIds, outcome \in ConnOutcomes :
          LET r == get_job(job_id, outcome) IN
          /\ CanAcquire(outcome)
          /\ checked_out' = checked_out + r.leaked
          /\ op' = [name |-> "get_job", id |-> job_id, status |-> r.status,
                    db |-> outcome]
    /\ UNCHANGED <<CANDIDATE_COMMENTS, notStoreVars>>

AddComment ==
    /\ pc = "store"
    /\ Len(CANDIDATE_COMMENTS.rows) < MaxComments
    /\ \E candidate_id \in CommentCandidateIds \cup MissingCandidateIds,
          req \in CommentRequests, run \in AddCommentRuns :
          LET r == add_comment(CANDIDATE_COMMENTS, candidate_id, req,
                               run.o1, run.o2, run.o3, run.idread, run.lob)
          IN
          /\ CanAcquire(run.o1)
          /\ checked_out' = checked_out + r.leaked
          /\ CANDIDATE_COMMENTS' = r.store
          /\ op' = IF r.status = 200
                   THEN [name |-> "add_comment", id |-> candidate_id,
                         status |-> r.status, request |-> req,
                         comments |-> r.comments, response |-> r.response]
                   ELSE [name |-> "add_comment", id |-> candidate_id,
                         status |-> r.status]
    /\ UNCHANGED notStoreVars

GetComments ==
    /\ pc = "store"
    /\ \E candidate_id \in CommentCandidateIds \cup MissingCandidateIds,
          outcome \in ConnOutcomes, lob \in BOOLEAN :
          LET r == get_comments(CANDIDATE_COMMENTS, candidate_id, outcome, lob)
          IN
          /\ CanAcquire(outcome)
          /\ op' = [name |-> "get_comments", id |-> candidate_id,
                    status |-> r.status, response |-> r.response,
                    db |-> outcome]
    /\ UNCHANGED <<checked_out, CANDIDATE_COMMENTS, notStoreVars>>

GetCandidateModelResults ==
    /\ pc = "store"
    /\ \E candidate_id \in CommentCandidateIds \cup MissingCandidateIds,
          outcome \in ConnOutcomes :
          LET r == get_candidate_model_results(candidate_id, outcome) IN
          /\ CanAcquire(outcome)
          /\ checked_out' = checked_out + r.leaked
          /\ op' = [name |-> "get_candidate_model_results",
                    id |-> candidate_id, status |-> r.status]
    /\ UNCHANGED <<CANDIDATE_COMMENTS, notStoreVars>>

ListUsers ==
    /\ pc = "store"
    /\ \E outcome \in ConnOutcomes :
          LET r == list_users(USERS, outcome) IN
          /\ CanAcquire(outcome)
          /\ op' = [name |-> "list_users", status |-> r.status,
                    response |-> r.response, db |-> outcome]
    /\ UNCHANGED <<checked_out, CANDIDATE_COMMENTS, notStoreVars>>

NextStore ==
    \/ ListUsers
    \/ GetJob
    \/ AddComment
    \/ GetComments
    \/ GetCandidateModelResults

SpecStore == InitStore /\ [][NextStore]_vars

(***************************************************************************)
(* Claims about the pool and the comments.                                 *)
(***************************************************************************)
Served(name) == op # Nil /\ op.name = name

\* C6: after any sequence of completed operations no connection is checked
\* out of the pool, whatever the exit path of each operation was.
C6_EveryConnectionReturned ==
    pc = "store" => checked_out = 0

\* The comments are in the order newest first.
NewestFirst(comments) ==
    \A a, b \in DOMAIN comments :
        a < b => comments[a].created_at > comments[b].created_at

\* C10: after add_comment succeeded with a text and a list of tags, the
\* comment get_candidate_comments returns for it has the same text and the
\* same list of tags, and the comments come newest first.
C10_CommentRoundTrip ==
    (Served("add_comment") /\ op.status = 200 /\ op.request.tags.t = "list") =>
        /\ op.response.comment = op.request.comment
        /\ op.response.tags = op.request.tags.l
        /\ NewestFirst(op.comments)
        /\ op.comments[1].id = op.response.comment_id

\* C13: when the database call behind list_users, get_job or get_comments
\* fails, the endpoint answers with a server error, never with a successful
\* (empty) result and never with NotFound.
C13_DatabaseFailureIsServerError ==
    \A name \in {"list_users", "get_job", "get_comments"} :
        (Served(name) /\ op.db # "ok") => op.status = 500

(***************************************************************************)
(* analyze_candidate, the endpoint of one candidate against one job, and   *)
(* SpecEndpoints, in which a request is served by rank_candidates or by    *)
(* analyze_candidate.                                                      *)
(***************************************************************************)
\* AIAnalysisRequest: two integers.
AnalysisRequests ==
    {[candidate_id |-> c, job_id |-> j] :
        c \in CandidateIds \cup MissingCandidateIds,
        j \in JobIds \cup MissingJobIds}

\* A row of the history written by an earlier analysis.
EarlierRow ==
    ModelResultRow(1, 1, get_fallback_analysis(CandidateTable[1], JobTable[1],
                                               <<"Python", "SQL">>))

InitAnalyzeEndpoint ==
    /\ pc = "analyze_start"
    /\ request \in AnalysisRequests
    /\ USERS = <<>>
    /\ candidate_data = Nil
    /\ job_data = Nil
    /\ completion = Nil
    /\ analysis = Nil
    /\ all_candidates = <<>>
    /\ i = 0
    /\ ranked_candidates = <<>>
    /\ MODEL_RESULTS \in {<<>>, <<EarlierRow>>}
    /\ dispositions = <<>>
    /\ returned = Nil
    /\ http = Nil
    /\ candidates_data = <<>>
    /\ ranked_results = <<>>
    /\ checked_out = 0
    /\ CANDIDATE_COMMENTS = <<>>
    /\ JOB_SKILLS = <<>>
    /\ op = Nil

HttpError(status, detail) ==
    [raised |-> TRUE, exc |-> "HTTPException", status |-> status,
     detail |-> detail]

\* main.py 345-352: the two lookups. A record that is not there, or whose
\* query failed, is answered 404; get_candidate_data raising is answered 500
\* by the handler of Exception.
AnalyzeLookup ==
    /\ pc = "analyze_start"
    /\ \E c_outcome, j_outcome \in ConnOutcomes :
          LET c == get_candidate_data(request.candidate_id, c_outcome)
              j == get_job_data(request.job_id, j_outcome)
          IN  /\ CanAcquire(c_outcome)
              /\ IF c.raised THEN
                     /\ returned' = HttpError(500, "Erro interno")
                     /\ pc' = "done"
                     /\ checked_out' = checked_out
                     /\ UNCHANGED <<candidate_data, job_data>>
                 ELSE IF c.value = Nil THEN
                     /\ returned' = HttpError(404, "Candidato nao encontrado")
                     /\ pc' = "done"
                     /\ checked_out' = checked_out + c.leaked
                     /\ UNCHANGED <<candidate_data, job_data>>
                 ELSE IF j.value = Nil THEN
                     /\ returned' = HttpError(404, "Vaga nao encontrada")
                     /\ pc' = "done"
                     /\ checked_out' = checked_out + j.leaked
                     /\ UNCHANGED <<candidate_data, job_data>>
                 ELSE
                     /\ candidate_data' = c.value
                     /\ job_data' = j.value
                     /\ pc' = "analyze_call"
                     /\ UNCHANGED <<returned, checked_out>>
    /\ http' = IF pc' = "done" THEN [status |-> returned'.status] ELSE http
    /\ UNCHANGED <<completion, analysis, request, USERS, all_candidates, i,
                   ranked_candidates, MODEL_RESULTS, dispositions, searchVars,
                   CANDIDATE_COMMENTS, JOB_SKILLS, op>>

\* AIAnalysisResponse: ai_analysis and recommendation are str, the three
\* lists are List[str].
ValidAnalysisResponse(a) ==
    /\ a.ai_analysis.t = "str"
    /\ a.recommendation.t = "str"
    /\ a.red_flags.t = "list"
    /\ a.strengths.t = "list"
    /\ a.suggested_questions.t = "list"

\* database_service.py 186-243: the id of the new row, or None when the
\* procedure raised and the insert was rolled back.
save_model_result(rows, candidate_id, job_id, a, saved) ==
    IF saved
    THEN [value |-> JNum(Len(rows) + 1),
          rows |-> Append(rows, ModelResultRow(candidate_id, job_id, a))]
    ELSE [value |-> JNull, rows |-> rows]

\* main.py 354-385: the analysis, save_model_result (whose result is not
\* looked at) and the response.
AnalyzeRespond ==
    /\ pc = "analyze_call"
    /\ \E c \in RankCompletions, saved \in BOOLEAN,
          order \in Enumerations(CommonSkills(candidate_data, job_data)) :
          LET a == analyze_candidate_compatibility(candidate_data, job_data,
                                                   c, order)
              r == save_model_result(MODEL_RESULTS, request.candidate_id,
                                     request.job_id, a.value, saved)
          IN  /\ completion' = c
              /\ analysis' = a
              /\ MODEL_RESULTS' = r.rows
              /\ op' = [name |-> "save_model_result", value |-> r.value]
              /\ IF ValidAnalysisResponse(a.value)
                 THEN /\ returned' = [raised |-> FALSE, value |-> a.value]
                      /\ http' = [status |-> 200, body |-> a.value]
                 ELSE /\ returned' = HttpError(500, "Erro interno")
                      /\ http' = [status |-> 500]
    /\ pc' = "done"
    /\ UNCHANGED <<candidate_data, job_data, request, USERS, all_candidates, i,
                   ranked_candidates, dispositions, searchVars, checked_out,
                   CANDIDATE_COMMENTS, JOB_SKILLS>>

InitEndpoints == Init \/ InitAnalyzeEndpoint

NextEndpoints == Next \/ AnalyzeLookup \/ AnalyzeRespond

SpecEndpoints == InitEndpoints /\ [][NextEndpoints]_vars

(***************************************************************************)
(* Claims about the two scoring endpoints (checked under SpecEndpoints).   *)
(***************************************************************************)
AnalysisRequested == "candidate_id" \in DOMAIN request
RankingRequested == "limit" \in DOMAIN request
Answered == pc = "done" /\ http # Nil

\* The request names a candidate or a job that is not there.
NamesMissingRecord ==
    \/ AnalysisRequested /\ (request.candidate_id \notin CandidateIds
                               \/ request.job_id \notin JobIds)
    \/ RankingRequested /\ request.job_id \notin JobIds

\* No model call was made and no row of the history written.
NothingCalledNorWritten ==
    /\ completion = Nil
    /\ analysis = Nil
    /\ op = Nil
    /\ dispositions = <<>>
    /\ MODEL_RESULTS \in {<<>>, <<EarlierRow>>}

C16_SuccessfulAnalysisStored ==
    (Answered /\ AnalysisRequested /\ http.status = 200) =>
        /\ op.value # JNull
        /\ MODEL_RESULTS # <<>>
        /\ MODEL_RESULTS[Len(MODEL_RESULTS)].user_id = request.candidate_id
        /\ MODEL_RESULTS[Len(MODEL_RESULTS)].job_id = request.job_id

\* C20 (checked under Spec): when rank_candidates has answered, every
\* candidate that survived the threshold, in the response or cut off by the
\* limit, has a row of the history stored by the request, and no candidate
\* below the threshold has one.
C20_RowsForExactlyTheSurvivors ==
    (pc = "done" /\ RankingRequested) =>
        /\ \A k \in DOMAIN ranked_candidates :
              \E r \in DOMAIN MODEL_RESULTS :
                  /\ MODEL_RESULTS[r].user_id = ranked_candidates[k].candidate_id
                  /\ MODEL_RESULTS[r].job_id = request.job_id
        /\ \A d \in DOMAIN dispositions :
              dispositions[d].outcome # "ranked" =>
                  \A r \in DOMAIN MODEL_RESULTS :
                      MODEL_RESULTS[r].user_id # dispositions[d].id

(***************************************************************************)
(* The validation of the request bodies by the models of models.py, ahead  *)
(* of rank_candidates and search_talent_pool.                              *)
(***************************************************************************)
LimitMin == 1
LimitMax == 100
CompatibilityMin == 0
CompatibilityMax == 100
RankingLimitDefault == 10
SearchLimitDefault == 20

Accepted(v) == [ok |-> TRUE, value |-> v]
Rejected == [ok |-> FALSE]

\* Optional[...] = Field(default=..., ge=lo, le=hi): a field left out takes
\* the default, null is let through as None, a number has to be in range.
OptionalNumber(v, default, lo, hi) ==
    CASE v = Absent -> Accepted(JNum(default))
      [] v.t = "null" -> Accepted(JNull)
      [] v.t = "num" -> IF lo <= v.n /\ v.n <= hi THEN Accepted(v) ELSE Rejected
      [] OTHER -> Rejected

\* job_id: int, required.
RequiredInt(v) == IF v # Absent /\ v.t = "num" THEN Accepted(v.n) ELSE Rejected

\* models.py 9-13
CandidateRankingRequest(body) ==
    LET job_id == RequiredInt(body.job_id)
        limit == OptionalNumber(body.limit, RankingLimitDefault,
                                LimitMin, LimitMax)
        min_compatibility ==
            OptionalNumber(body.min_compatibility, CompatibilityMin,
                           CompatibilityMin, CompatibilityMax)
    IN  IF job_id.ok /\ limit.ok /\ min_compatibility.ok
        THEN Accepted([job_id |-> job_id.value, limit |-> limit.value,
                       min_compatibility |-> min_compatibility.value])
        ELSE Rejected

\* models.py 29-33: query is a required str of at least 3 characters.
TalentPoolSearchRequest(body) ==
    LET limit == OptionalNumber(body.limit, SearchLimitDefault,
                                LimitMin, LimitMax)
    IN  IF /\ body.query # Absent
           /\ body.query.t = "str"
           /\ Len(body.query.s) >= MinQueryLength
           /\ limit.ok
        THEN Accepted([query |-> body.query.s, limit |-> limit.value])
        ELSE Rejected

\* The bodies sent to the ranking endpoint.
RankingBodies ==
    {[job_id |-> j, limit |-> l, min_compatibility |-> m] :
        j \in {JNum(1), JNum(9), Absent},
        l \in {Absent, JNull, JNum(0), JNum(1), JNum(2), JNum(LimitMax),
               JNum(LimitMax + 1), JStr("dez")},
        m \in {Absent, JNull, JNum(-1), JNum(0), JNum(71),
               JNum(CompatibilityMax + 1), JStr("alto")}}

\* The bodies sent to the search endpoint.
SearchBodies ==
    {[query |-> q, limit |-> l] :
        q \in {Absent, JNull, JStr(<<>>), JStr(<<"a", "b">>),
               JStr(<<"a", "a", "b">>), JStr(<<"a", " ", "a", "b">>)},
        l \in {Absent, JNull, JNum(0), JNum(1)}}

InitValidate ==
    /\ pc = "validate"
    /\ request \in {[endpoint |-> "ranking", body |-> b] : b \in RankingBodies}
                 \cup {[endpoint |-> "search", body |-> b] : b \in SearchBodies}
    /\ USERS \in Pools
    /\ candidate_data = Nil
    /\ job_data = Nil
    /\ completion = Nil
    /\ analysis = Nil
    /\ all_candidates = <<>>
    /\ i = 0
    /\ ranked_candidates = <<>>
    /\ MODEL_RESULTS = <<>>
    /\ dispositions = <<>>
    /\ returned = Nil
    /\ http = Nil
    /\ candidates_data = <<>>
    /\ ranked_results = <<>>
    /\ checked_out = 0
    /\ CANDIDATE_COMMENTS = <<>>
    /\ JOB_SKILLS = <<>>
    /\ op = Nil

\* The body is validated before the endpoint function is called; a body
\* that is not accepted is answered 422.
Validate ==
    /\ pc = "validate"
    /\ LET v == IF request.endpoint = "ranking"
                THEN CandidateRankingRequest(request.body)
                ELSE TalentPoolSearchRequest(request.body)
       IN IF v.ok
          THEN /\ request' = v.value
               /\ pc' = IF request.endpoint = "ranking"
                        THEN "rank_start" ELSE "search_validated"
               /\ http' = http
          ELSE /\ http' = [status |-> 422]
               /\ pc' = "done"
               /\ request' = request
    /\ UNCHANGED <<scorerVars, USERS, all_candidates, i, ranked_candidates,
                   MODEL_RESULTS, dispositions, returned, otherVars>>

NextValidate == Validate \/ Next

SpecValidate == InitValidate /\ [][NextValidate]_vars

(***************************************************************************)
(* Claims about the validation (checked under SpecValidate).               *)
(***************************************************************************)
\* The request was handed to rank_candidates.
ReachedRanking == pc # "validate" /\ "min_compatibility" \in DOMAIN request
\* The request was handed to search_talent_pool.
ReachedSearch == pc = "search_validated"

\* Nothing was asked of the database or of the model.
NoExternalCall ==
    /\ job_data = Nil /\ candidate_data = Nil /\ all_candidates = <<>>
    /\ completion = Nil /\ dispositions = <<>> /\ MODEL_RESULTS = <<>>

\* C15: a ranking body whose limit is no integer in 1..100 or whose
\* min_compatibility is no number in [0,100], and a search body whose query
\* has fewer than 3 characters, is rejected before any database or model
\* call; a request that reaches rank_candidates has a limit in 1..100, and
\* the response has no more entries than its limit.
C15_OutOfRangeRejected ==
    /\ (pc = "done" /\ http = [status |-> 422]) => NoExternalCall
    /\ ReachedSearch => Len(request.query) >= MinQueryLength
    /\ ReachedRanking =>
          /\ request.limit.t = "num"
          /\ request.limit.n \in LimitMin..LimitMax
          /\ request.min_compatibility.t = "num"
          /\ request.min_compatibility.n \in CompatibilityMin..CompatibilityMax
          /\ (pc = "done" /\ http.status = 200) =>
                Len(http.body) <= request.limit.n

(***************************************************************************)
(* rank_candidates with the completion call of each candidate in two       *)
(* steps, the request sent and the reply received (SpecCalls). Here op is  *)
(* the log of the completion calls of the request.                         *)
(***************************************************************************)
\* A mutant: the request is sent again while the first one is pending.
completions_create_twice(calls, candidate_id, disposed) ==
    calls \o << [candidate_id |-> candidate_id, disposed |-> disposed,
                 returned |-> FALSE],
                [candidate_id |-> candidate_id, disposed |-> disposed,
                 returned |-> FALSE] >>

\* ai_service.py 41-55: one request to the completion model; disposed is
\* the number of candidates persisted or skipped when it is sent.
completions_create(calls, candidate_id, disposed) ==
    Append(calls, [candidate_id |-> candidate_id, disposed |-> disposed,
                   returned |-> FALSE])

\* The reply, or the error, of the pending requests has arrived.
CallsReturned(calls) ==
    [k \in DOMAIN calls |-> [calls[k] EXCEPT !.returned = TRUE]]

InitCalls ==
    /\ pc = "rank_start"
    /\ request \in RankingRequests
    /\ USERS \in Pools
    /\ candidate_data = Nil
    /\ job_data = Nil
    /\ completion = Nil
    /\ analysis = Nil
    /\ all_candidates = <<>>
    /\ i = 0
    /\ ranked_candidates = <<>>
    /\ MODEL_RESULTS = <<>>
    /\ dispositions = <<>>
    /\ returned = Nil
    /\ http = Nil
    /\ candidates_data = <<>>
    /\ ranked_results = <<>>
    /\ checked_out = 0
    /\ CANDIDATE_COMMENTS = <<>>
    /\ JOB_SKILLS = <<>>
    /\ op = [name |-> "chat.completions.create", calls |-> <<>>]

\* main.py 133, ai_service.py 38-55: the prompt is built and the request
\* sent.
SendCompletion ==
    /\ pc = "rank_analyze"
    /\ op' = [op EXCEPT !.calls = completions_create(op.calls,
                                       all_candidates[i], Len(dispositions))]
    /\ pc' = "rank_call"
    /\ UNCHANGED <<scorerVars, rankVars, searchVars, checked_out,
                   CANDIDATE_COMMENTS, JOB_SKILLS>>

\* ai_service.py 58-68, main.py 139-141: the reply or the error arrives,
\* the analysis is built and compared with the threshold.
ReceiveCompletion ==
    /\ pc = "rank_call"
    /\ op' = [op EXCEPT !.calls = CallsReturned(op.calls)]
    /\ \E c \in RankCompletions,
          order \in Enumerations(CommonSkills(candidate_data, job_data)) :
          LET a == analyze_candidate_compatibility(candidate_data, job_data, c, order)
              below == IF a.raised THEN a
                       ELSE BelowMinimum(a.value.compatibility_score,
                                         request.min_compatibility)
          IN IF below.raised \/ below.value
             THEN /\ dispositions' = Append(dispositions,
                        Disposition(all_candidates[i], "ok", CallKind(c),
                            IF below.raised THEN "skipped" ELSE "below_min", FALSE))
                  /\ i' = i + 1
                  /\ pc' = "rank_fetch"
                  /\ candidate_data' = Nil
                  /\ UNCHANGED <<completion, analysis>>
             ELSE /\ completion' = c
                  /\ analysis' = a
                  /\ pc' = "rank_save"
                  /\ UNCHANGED <<candidate_data, dispositions, i>>
    /\ UNCHANGED <<job_data, request, USERS, all_candidates, ranked_candidates,
                   MODEL_RESULTS, returned, http, searchVars, checked_out,
                   CANDIDATE_COMMENTS, JOB_SKILLS>>

NextCalls ==
    \/ FetchJob
    \/ JobNotFound
    \/ FetchAllCandidates
    \/ FetchCandidate
    \/ FetchCandidateFails
    \/ SendCompletion
    \/ ReceiveCompletion
    \/ SaveResult
    \/ RankFinish

SpecCalls == InitCalls /\ [][NextCalls]_vars

(***************************************************************************)
(* Claims about the completion calls of a ranking (checked under           *)
(* SpecCalls).                                                             *)
(***************************************************************************)
InFlight == {k \in DOMAIN op.calls : ~op.calls[k].returned}

\* The candidates of the pool whose record get_candidate_data returned.
Retrieved == {k \in DOMAIN dispositions : dispositions[k].fetch = "ok"}

\* C21: inside one rank_candidates request at most one completion call is
\* in flight at any time; the call for a candidate is sent when exactly the
\* candidates before it in the pool have been persisted or skipped, so the
\* calls follow the pool order; and when the request is answered there are
\* exactly as many calls as candidates whose record could be retrieved.
C21_OneCallAtATimeInPoolOrder ==
    /\ Cardinality(InFlight) <= 1
    /\ \A k \in DOMAIN op.calls :
          /\ op.calls[k].disposed < Len(all_candidates)
          /\ op.calls[k].candidate_id = all_candidates[op.calls[k].disposed + 1]
          /\ \A l \in DOMAIN op.calls :
                k < l => op.calls[k].disposed < op.calls[l].disposed
    /\ InFlight # {} => Len(dispositions) = i - 1
    /\ pc = "done" =>
          /\ InFlight = {}
          /\ Len(op.calls) = Cardinality(Retrieved)

\* A pool of two candidates, both retrieved: two calls, the second sent
\* after the first candidate was left below the threshold, and the second
\* candidate persisted.
C21_Witness ==
    /\ pc = "done"
    /\ Len(all_candidates) = 2
    /\ Len(op.calls) = 2
    /\ op.calls[2].disposed = 1
    /\ dispositions[1].outcome = "below_min"
    /\ dispositions[2].outcome = "ranked"
    /\ Len(MODEL_RESULTS) = 1

(***************************************************************************)
(* Claims about the order and the scores of the talent search (checked     *)
(* under SpecCriteria, where the reply of the model decides the path).     *)
(***************************************************************************)
SearchAnswered == pc = "done" /\ completion # Nil

\* The place of a candidate in the list handed to the service.
PoolIndex(id) == CHOOSE k \in DOMAIN candidates_data : candidates_data[k].id = id

\* C22: on the criteria path and on the text-search path, two candidates of
\* equal relevance_score appear in the result in the order they had in the
\* list of candidates handed to the service.
C22_TiesKeepPoolOrder ==
    SearchAnswered =>
        \A a, b \in DOMAIN ranked_results :
            (a < b /\ ranked_results[a].relevance_score
                        = ranked_results[b].relevance_score) =>
                PoolIndex(ranked_results[a].id) < PoolIndex(ranked_results[b].id)

\* The criteria scored candidates 3 and 2 alike, above zero, and the result
\* lists them as the pool did, 3 before 2.
C22_Witness ==
    /\ SearchAnswered
    /\ CriteriaAnswered
    /\ Len(ranked_results) = 2
    /\ ranked_results[1].id = 3 /\ ranked_results[2].id = 2
    /\ candidates_data[1].id = 3
    /\ ranked_results[1].relevance_score = ranked_results[2].relevance_score
    /\ RatLess(RatOfInt(0), ranked_results[1].relevance_score)

(***************************************************************************)
(* _rank_candidates_by_criteria on its own (SpecRanker): the candidates    *)
(* and the criteria are drawn from small sets, with levels and areas the   *)
(* endpoint does not supply. Here op is the call served.                   *)
(***************************************************************************)
RankerCandidateIds == {1, 2, 3, 4}

RankerTable ==
    [id \in RankerCandidateIds |->
        CASE id = 1 -> [id |-> 1, name |-> <<"p">>, email |-> "1@x",
                        skills |-> << <<"A">> >>, profile |-> <<>>,
                        level |-> <<"s", "r">>, area |-> <<"a", "b">>]
          [] id = 2 -> [id |-> 2, name |-> <<"q">>, email |-> "2@x",
                        skills |-> << <<"a">>, <<"b">> >>, profile |-> <<>>,
                        level |-> <<>>]
          [] id = 3 -> [id |-> 3, name |-> <<"r">>, email |-> "3@x",
                        skills |-> <<>>, profile |-> <<>>,
                        level |-> <<"j">>, area |-> <<"x">>]
          [] id = 4 -> [id |-> 4, name |-> <<"s">>, email |-> "4@x",
                        skills |-> << <<"a">>, <<"A">> >>, profile |-> <<>>,
                        level |-> <<"S", "r">>, area |-> <<>>]]

RankerPools ==
    {p \in SeqsUpTo(RankerCandidateIds, MaxPool) :
        \A a, b \in DOMAIN p : a # b => p[a] # p[b]}

\* Criteria every field of which can be read.
RankerCriteria ==
    {Criteria(s, l, a) :
        s \in {Absent, JList(<<>>), JList(<< <<"a">> >>),
               JList(<< <<"a">>, <<"a">> >>), JList(<< <<"A">>, <<"b">> >>),
               JList(<< <<"c">>, <<"a">>, <<"b">> >>)},
        l \in {Absent, JStr(<<>>), JStr(Qualquer), JStr(<<"s", "r">>),
               JStr(<<"s">>), JStr(<<"j", "r">>)},
        a \in {Absent, JStr(<<"a">>), JStr(<<"A", "b">>), JStr(<<"x", "y">>)}}

InitRanker ==
    /\ pc = "ranker_call"
    /\ \E p \in RankerPools :
          candidates_data = [k \in DOMAIN p |-> RankerTable[p[k]]]
    /\ request = Nil
    /\ USERS = <<>>
    /\ candidate_data = Nil
    /\ job_data = Nil
    /\ completion = Nil
    /\ analysis = Nil
    /\ all_candidates = <<>>
    /\ i = 0
    /\ ranked_candidates = <<>>
    /\ MODEL_RESULTS = <<>>
    /\ dispositions = <<>>
    /\ returned = Nil
    /\ http = Nil
    /\ ranked_results = <<>>
    /\ checked_out = 0
    /\ CANDIDATE_COMMENTS = <<>>
    /\ JOB_SKILLS = <<>>
    /\ op = Nil

\* ai_service.py 257-295
RankByCriteria ==
    /\ pc = "ranker_call"
    /\ \E criteria \in RankerCriteria :
          LET r == rank_candidates_by_criteria(candidates_data, criteria)
          IN  /\ op' = [name |-> "_rank_candidates_by_criteria",
                        criteria |-> criteria]
              /\ returned' = r
              /\ ranked_results' = IF r.raised THEN <<>> ELSE r.value
    /\ pc' = "ranker_done"
    /\ UNCHANGED <<scorerVars, request, USERS, all_candidates, i,
                   ranked_candidates, MODEL_RESULTS, dispositions, http,
                   candidates_data, checked_out, CANDIDATE_COMMENTS, JOB_SKILLS>>

NextRanker == RankByCriteria

SpecRanker == InitRanker /\ [][NextRanker]_vars

(***************************************************************************)
(* Claims about the scores of the criteria (checked under SpecRanker).     *)
(***************************************************************************)
Ranked == pc = "ranker_done" /\ ~returned.raised

RequiredSkills == LowerAll(DictGet(op.criteria.o, "skills", JList(<<>>)).l)
RequiredLevel == Lower(DictGet(op.criteria.o, "level", JStr(<<>>)).s)
RequiredArea == Lower(DictGet(op.criteria.o, "area", JStr(<<>>)).s)

\* The distinct required skills the candidate has, letter case aside.
SkillsHeld(c) ==
    {s \in Range(RequiredSkills) :
        \E k \in DOMAIN c.skills : Lower(c.skills[k]) = s}

LevelOf(c) == IF "level" \in DOMAIN c THEN Lower(c.level) ELSE <<>>
AreaOf(c) == IF "area" \in DOMAIN c THEN Lower(c.area) ELSE <<>>

LevelMatches(c) ==
    /\ RequiredLevel # <<>>
    /\ RequiredLevel # Qualquer
    /\ Substring(RequiredLevel, LevelOf(c)) \/ Substring(LevelOf(c), RequiredLevel)

AreaMatches(c) == RequiredArea # <<>> /\ Substring(RequiredArea, AreaOf(c))

\* C23: the relevance_score of each candidate is 50 x (distinct required
\* skills the candidate has) / (required skills listed), plus 30 when a
\* level other than "qualquer" is required and is a substring of, or
\* contains, the candidate's level, plus 20 when an area is required and is
\* a substring of the candidate's area; it lies within [0,100], also when
\* the criteria list a skill twice.
C23_CriteriaScore ==
    Ranked =>
        /\ Len(ranked_results) = Len(candidates_data)
        /\ \A k \in DOMAIN ranked_results :
              LET c == ranked_results[k]
                  listed == Len(RequiredSkills)
                  points == (IF LevelMatches(c) THEN 30 ELSE 0)
                              + (IF AreaMatches(c) THEN 20 ELSE 0)
              IN  /\ c.relevance_score =
                        IF listed = 0 THEN RatOfInt(points)
                        ELSE Rat(50 * Cardinality(SkillsHeld(c)) + points * listed,
                                 listed)
                  /\ RatLeq(RatOfInt(0), c.relevance_score)
                  /\ RatLeq(c.relevance_score, RatOfInt(100))

\* The criteria list skill a twice and candidate 1, who has it, matches
\* the level and the area: 25 + 30 + 20.
C23_Witness ==
    /\ Ranked
    /\ RequiredSkills = << <<"a">>, <<"a">> >>
    /\ \E k \in DOMAIN ranked_results :
          /\ ranked_results[k].id = 1
          /\ LevelMatches(ranked_results[k])
          /\ AreaMatches(ranked_results[k])
          /\ ranked_results[k].relevance_score = RatOfInt(75)

\* Why the criteria of the model were not used.
ModelCallFails == ~completion.ok
ReplyNoJson ==
    /\ completion.ok
    /\ \/ completion.content.k = "none"
       \/ JsonLoads(completion.content.text).raised
ReplyCriteria == JsonLoads(completion.content.text).value
RankingRaises ==
    /\ completion.ok
    /\ completion.content.k = "text"
    /\ ~JsonLoads(completion.content.text).raised
    /\ rank_candidates_by_criteria(candidates_data, ReplyCriteria).raised

\* The score of the text search as the claim words it.
TextScore(c) ==
    LET q == Lower(request.query)
        query_words == Words(q)
    IN  IF Substring(q, Haystack(c)) THEN RatOfInt(100)
        ELSE IF query_words = {} THEN RatOfInt(0)
        ELSE Rat(100 * Cardinality(query_words \cap Words(Haystack(c))),
                 Cardinality(query_words))

\* s holds exactly the candidates of the pool that score above 0, each with
\* its score, best first and equal scores in pool order.
IsTextSearchResult(s) ==
    /\ \A k \in DOMAIN candidates_data :
          RatLess(RatOfInt(0), TextScore(candidates_data[k])) <=>
              \E j \in DOMAIN s : s[j].id = candidates_data[k].id
    /\ \A j \in DOMAIN s :
          /\ \E k \in DOMAIN candidates_data :
                s[j] = WithRelevance(candidates_data[k],
                                     TextScore(candidates_data[k]))
          /\ \A l \in DOMAIN s :
                j < l =>
                    /\ s[j].id # s[l].id
                    /\ RatLeq(s[l].relevance_score, s[j].relevance_score)
                    /\ s[l].relevance_score = s[j].relevance_score =>
                          PoolIndex(s[j].id) < PoolIndex(s[l].id)

\* C24: search_talent_pool returns a list whatever the model does; when the
\* call fails, the reply is no JSON or the ranking by the criteria raises,
\* that list is the text search over the same candidates, in which a
\* candidate scores 100 if the lowercased query is a substring of its
\* haystack and otherwise 100 x (query words in the haystack) / (query
\* words).
C24_FailureAnsweredByTextSearch ==
    SearchAnswered =>
        /\ ~returned.raised /\ http.status = 200
        /\ (ModelCallFails \/ ReplyNoJson \/ RankingRaises) =>
              IsTextSearchResult(ranked_results)

\* The reply was a JSON list, the ranking raised on the first candidate,
\* and the text search answered with a full and a half match.
C24_Witness ==
    /\ SearchAnswered
    /\ RankingRaises
    /\ ReplyCriteria.t = "list"
    /\ Len(ranked_results) = 2
    /\ ranked_results[1].relevance_score = RatOfInt(100)
    /\ ranked_results[2].relevance_score = RatOfInt(50)
    /\ PoolIndex(ranked_results[1].id) = 2

\* The criteria of the reply without their level.
WithoutLevel(criteria) ==
    JObj([k \in DOMAIN criteria.o \ {"level"} |-> criteria.o[k]])

\* The criteria name a level other than "qualquer".
LevelNamed(criteria) ==
    /\ "level" \in DOMAIN criteria.o
    /\ criteria.o.level.t = "str"
    /\ Lower(criteria.o.level.s) \notin {<<>>, Qualquer}

PlusPoints(score, points) == Rat(score.n + points * score.d, score.d)

ResultIds(s) == [k \in DOMAIN s |-> s[k].id]

\* C28: the talent-search endpoint hands every candidate to the ranker with
\* an empty level; on the criteria path the level adds 30 to every
\* candidate when the criteria name a level other than "qualquer" and
\* nothing to any candidate otherwise, and the result lists the candidates
\* in the order it would have without the level.
C28_LevelNeverReorders ==
    CriteriaAnswered =>
        LET levelled == [k \in DOMAIN candidates_data |->
                CriteriaRelevance(candidates_data[k], ReplyCriteria.o).value]
            plain == [k \in DOMAIN candidates_data |->
                CriteriaRelevance(candidates_data[k],
                                  WithoutLevel(ReplyCriteria).o).value]
        IN  /\ \A k \in DOMAIN candidates_data :
                  /\ candidates_data[k].level = <<>>
                  /\ levelled[k] = PlusPoints(plain[k],
                         IF LevelNamed(ReplyCriteria) THEN 30 ELSE 0)
            /\ ResultIds(ranked_results) =
                  ResultIds(rank_candidates_by_criteria(candidates_data,
                                WithoutLevel(ReplyCriteria)).value)

\* The criteria name level "sr": both candidates got its 30 points, and the
\* one with the matching skill, second in the pool, comes first.
C28_Witness ==
    /\ CriteriaAnswered
    /\ LevelNamed(ReplyCriteria)
    /\ Len(ranked_results) = 2
    /\ ranked_results[1].relevance_score = RatOfInt(55)
    /\ ranked_results[2].relevance_score = RatOfInt(30)
    /\ PoolIndex(ranked_results[1].id) = 2

\* The reply is a JSON object whose key is there with the value null.
ReplyHasNull(key) ==
    /\ completion.ok
    /\ completion.content.k = "text"
    /\ ~JsonLoads(completion.content.text).raised
    /\ ReplyCriteria.t = "obj"
    /\ key \in DOMAIN ReplyCriteria.o
    /\ ReplyCriteria.o[key] = JNull

\* C29: when the reply of the model is a JSON object whose area or level is
\* null, the request is answered 200 with what the text search finds for
\* the query of the request, cut to the limit; with candidates to rank, the
\* ranking by the criteria raised.
C29_NullAreaOrLevelAnsweredByTextSearch ==
    (SearchAnswered /\ (ReplyHasNull("area") \/ ReplyHasNull("level"))) =>
        LET found == simple_text_search(candidates_data, request.query)
            cut == Slice(found, request.limit)
        IN  /\ ranked_results = found
            /\ http = [status |-> 200,
                       body |-> [k \in DOMAIN cut |-> SearchEntry(cut[k])]]
            /\ candidates_data # <<>> => RankingRaises

\* The area of the reply is null; of two candidates the text search kept
\* the one that matches the query, which the criteria would both have kept.
C29_Witness ==
    /\ SearchAnswered
    /\ ReplyHasNull("area")
    /\ Len(candidates_data) = 2
    /\ Len(ranked_results) = 1
    /\ http.status = 200
    /\ Len(http.body) = 1

(***************************************************************************)
(* rank_candidates served twice for the same request over the same store   *)
(* while the completion model is down (SpecTwice). Here op keeps what the  *)
(* first run returned and which records it was given.                      *)
(***************************************************************************)
TwicePools == {<<1, 2>>, <<2, 1>>, <<3, 1>>}

TwiceRequests ==
    {[job_id |-> 1, limit |-> l, min_compatibility |-> m] :
        l \in {JNum(1), JNull}, m \in {JNum(0), JNum(1)}}

InitTwice ==
    /\ pc = "rank_start"
    /\ request \in TwiceRequests
    /\ USERS \in TwicePools
    /\ candidate_data = Nil
    /\ job_data = Nil
    /\ completion = Nil
    /\ analysis = Nil
    /\ all_candidates = <<>>
    /\ i = 0
    /\ ranked_candidates = <<>>
    /\ MODEL_RESULTS = <<>>
    /\ dispositions = <<>>
    /\ returned = Nil
    /\ http = Nil
    /\ candidates_data = <<>>
    /\ ranked_results = <<>>
    /\ checked_out = 0
    /\ CANDIDATE_COMMENTS = <<>>
    /\ JOB_SKILLS = <<>>
    /\ op = Nil

\* main.py 133-141 when chat.completions.create raises: the analysis is
\* the fallback, compared with the threshold.
AnalyzeModelDown ==
    /\ UNCHANGED otherVars
    /\ pc = "rank_analyze"
    /\ \E order \in Enumerations(CommonSkills(candidate_data, job_data)) :
          LET c == CallFailed
              a == analyze_candidate_compatibility(candidate_data, job_data, c, order)
              below == IF a.raised THEN a
                       ELSE BelowMinimum(a.value.compatibility_score,
                                         request.min_compatibility)
          IN IF below.raised \/ below.value
             THEN /\ dispositions' = Append(dispositions,
                        Disposition(all_candidates[i], "ok", CallKind(c),
                            IF below.raised THEN "skipped" ELSE "below_min", FALSE))
                  /\ i' = i + 1
                  /\ pc' = "rank_fetch"
                  /\ candidate_data' = Nil
                  /\ UNCHANGED <<completion, analysis>>
             ELSE /\ completion' = c
                  /\ analysis' = a
                  /\ pc' = "rank_save"
                  /\ UNCHANGED <<candidate_data, dispositions, i>>
    /\ UNCHANGED <<job_data, request, USERS, all_candidates, ranked_candidates,
                   MODEL_RESULTS, returned, http>>

\* A mutant: the list of the previous request is carried over.
KeptRanking(previous) == previous

\* main.py 123: ranked_candidates = []
NewRanking(previous) == <<>>

Fetches(d) == [k \in DOMAIN d |-> d[k].fetch]

\* The first response has been sent and the same request arrives again:
\* the locals of the function are new, the rows of the history stay.
RunAgain ==
    /\ pc = "done"
    /\ op = Nil
    /\ op' = [name |-> "rank_candidates", returned |-> returned,
              http |-> http, all_candidates |-> all_candidates,
              fetches |-> Fetches(dispositions)]
    /\ pc' = "rank_start"
    /\ candidate_data' = Nil
    /\ job_data' = Nil
    /\ completion' = Nil
    /\ analysis' = Nil
    /\ all_candidates' = <<>>
    /\ i' = 0
    /\ ranked_candidates' = NewRanking(ranked_candidates)
    /\ dispositions' = <<>>
    /\ returned' = Nil
    /\ http' = Nil
    /\ UNCHANGED <<request, USERS, MODEL_RESULTS, searchVars, checked_out,
                   CANDIDATE_COMMENTS, JOB_SKILLS>>

NextTwice ==
    \/ FetchJob
    \/ JobNotFound
    \/ FetchAllCandidates
    \/ FetchCandidate
    \/ FetchCandidateFails
    \/ AnalyzeModelDown
    \/ SaveResult
    \/ RankFinish
    \/ RunAgain

SpecTwice == InitTwice /\ [][NextTwice]_vars

(***************************************************************************)
(* Claims about the fallback of the ranking (checked under SpecTwice).     *)
(***************************************************************************)
SecondRunDone == pc = "done" /\ op # Nil

\* Both runs were given the job, the same pool and the same records.
SameRecords ==
    /\ ~op.returned.raised /\ ~returned.raised
    /\ op.all_candidates = all_candidates
    /\ op.fetches = Fetches(dispositions)

\* What the claim compares of a response.
Outcome(r) ==
    [k \in DOMAIN r |->
        [candidate_id |-> r[k].candidate_id,
         compatibility_score |-> r[k].compatibility_score,
         cultural_fit_score |-> r[k].cultural_fit_score,
         professional_fit_score |-> r[k].professional_fit_score,
         recommendation |-> r[k].recommendation]]

\* C25: two runs of rank_candidates for the same request, given the same
\* job, pool and candidate records, both with the completion model failing,
\* return the same candidates in the same order with the same scores and
\* recommendations.
C25_FallbackRankingDeterministic ==
    (SecondRunDone /\ SameRecords) =>
        Outcome(returned.value) = Outcome(op.returned.value)

\* Both runs ranked candidates 3 and 1 from the fallback alone and both
\* answered with candidate 1 before candidate 3.
C25_Witness ==
    /\ SecondRunDone
    /\ SameRecords
    /\ all_candidates = <<3, 1>>
    /\ AllCallsFailed
    /\ Len(returned.value) = 2
    /\ returned.value[1].candidate_id = 1
    /\ returned.value[2].candidate_id = 3
    /\ op.returned.value = returned.value

(***************************************************************************)
(* Claims about the ceiling of the fallback scores (checked under Spec).   *)
(***************************************************************************)
\* The candidate in hand passed the threshold on an analysis that came
\* from a failed call or from a reply that is no JSON.
PassedOnFallback ==
    pc = "rank_save" /\ (ModelCallFailed \/ ReplyNotJson)

\* The request asks for more than the fallback can give.
MinimumAbove70 ==
    request.min_compatibility.t = "num" /\ request.min_compatibility.n > 70

\* C26: on both fallback paths compatibility_score is 0.7 x
\* professional_fit_score, with professional_fit_score at most 100, and so
\* at most 70; a ranking request whose min_compatibility is above 70 and
\* all of whose model calls failed is answered with the empty list and
\* writes no row to the history.
C26_FallbackCappedAt70 ==
    /\ PassedOnFallback =>
          /\ RatLeq(analysis.value.professional_fit_score, RatOfInt(100))
          /\ analysis.value.compatibility_score =
                RatMul(analysis.value.professional_fit_score, Rat(7, 10))
          /\ RatLeq(analysis.value.compatibility_score, RatOfInt(70))
    /\ (MinimumAbove70 /\ AllCallsFailed) =>
          /\ ranked_candidates = <<>>
          /\ MODEL_RESULTS = <<>>
          /\ RankReturned =>
                returned.value = <<>> /\ http = [status |-> 200, body |-> <<>>]

\* Candidates 1 and 3 were both analysed with the model down against a
\* minimum of 71: both were left out and the answer is empty.
C26_Witness ==
    /\ RankReturned
    /\ MinimumAbove70
    /\ request.job_id = 1
    /\ all_candidates = <<1, 3>>
    /\ \A k \in DOMAIN dispositions :
          dispositions[k].call = "failed" /\ dispositions[k].outcome = "below_min"
    /\ Len(dispositions) = 2
    /\ returned.value = <<>>
    /\ MODEL_RESULTS = <<>>

(***************************************************************************)
(* The endpoint that associates a skill with a job (SpecSkills). Several   *)
(* requests may be in flight at once; the server is one process with one   *)
(* event loop and neither main.py 599-607 nor the two methods it awaits    *)
(* suspend, so a request, once the loop runs it, is served whole. Here op  *)
(* holds the requests in flight and the last response.                     *)
(***************************************************************************)
MaxSkillCalls == 3

SkillIds == {1, 2}

\* AddSkillToJobRequest with the job_id of the path.
AddSkillRequests ==
    {[job_id |-> j, skill_id |-> s, obrigatoria |-> TRUE] :
        j \in {1} \cup MissingJobIds, s \in SkillIds}

\* A mutant: the SELECT COUNT(*) finds nothing.
NeverAssociated(rows, job_id, skill_id) == FALSE

\* database_service.py 678-683: SELECT COUNT(*) ... > 0
AlreadyAssociated(rows, job_id, skill_id) ==
    \E k \in DOMAIN rows :
        rows[k].job_id = job_id /\ rows[k].skill_id = skill_id

\* database_service.py 665-714: None when the pair is there or when a
\* statement or the commit raised (the insert is rolled back), the id of
\* the new row otherwise.
add_skill_to_job(rows, job_id, skill_id, obrigatoria, outcome) ==
    IF outcome \in {"down", "error"} THEN [value |-> JNull, rows |-> rows]
    ELSE IF AlreadyAssociated(rows, job_id, skill_id)
    THEN [value |-> JNull, rows |-> rows]
    ELSE [value |-> JNum(Len(rows) + 1),
          rows |-> Append(rows,
              [id |-> Len(rows) + 1, job_id |-> job_id, skill_id |-> skill_id,
               obrigatoria |-> IF obrigatoria THEN "S" ELSE "N"])]

InitSkills ==
    /\ pc = "skills"
    /\ request = Nil
    /\ USERS = <<>>
    /\ candidate_data = Nil
    /\ job_data = Nil
    /\ completion = Nil
    /\ analysis = Nil
    /\ all_candidates = <<>>
    /\ i = 0
    /\ ranked_candidates = <<>>
    /\ MODEL_RESULTS = <<>>
    /\ dispositions = <<>>
    /\ returned = Nil
    /\ http = Nil
    /\ candidates_data = <<>>
    /\ ranked_results = <<>>
    /\ checked_out = 0
    /\ CANDIDATE_COMMENTS = <<>>
    /\ JOB_SKILLS = <<>>
    /\ op = [name |-> "add_skill_to_job",
             pending |-> [r \in AddSkillRequests |-> 0],
             arrived |-> 0,
             raced |-> {},
             last |-> Nil]

\* A request has been received and waits for the event loop.
AddSkillArrives ==
    /\ pc = "skills"
    /\ op.arrived < MaxSkillCalls
    /\ \E r \in AddSkillRequests :
          op' = [op EXCEPT !.pending[r] = @ + 1, !.arrived = @ + 1]
    /\ UNCHANGED <<checked_out, CANDIDATE_COMMENTS, notStoreVars>>

\* main.py 594-622: one request in flight is served.
AddSkillToJob ==
    /\ pc = "skills"
    /\ \E r \in AddSkillRequests, o1, o2 \in ConnOutcomes :
          LET job == get_job_data(r.job_id, o1)
              added == add_skill_to_job(JOB_SKILLS, r.job_id, r.skill_id,
                                        r.obrigatoria, o2)
              found == job.value # Nil
              status == IF ~found THEN 404
                        ELSE IF added.value = JNull THEN 400 ELSE 201
          IN  /\ op.pending[r] > 0
              /\ CanAcquire(o1)
              /\ checked_out' = checked_out + job.leaked
              /\ JOB_SKILLS' = IF found THEN added.rows ELSE JOB_SKILLS
              /\ op' = [op EXCEPT
                    !.pending[r] = @ - 1,
                    !.raced = IF status = 201 /\ op.pending[r] > 1
                              THEN @ \cup {<<r.job_id, r.skill_id>>} ELSE @,
                    !.last = [request |-> r,
                              status |-> status,
                              job_skill_id |-> IF status = 201 THEN added.value
                                               ELSE JNull,
                              existed |-> \E k \in DOMAIN JOB_SKILLS :
                                  /\ JOB_SKILLS[k].job_id = r.job_id
                                  /\ JOB_SKILLS[k].skill_id = r.skill_id,
                              inserted |-> Len(JOB_SKILLS') > Len(JOB_SKILLS)]]
    /\ UNCHANGED <<CANDIDATE_COMMENTS, pc, scorerVars, rankVars, searchVars>>

NextSkills == AddSkillArrives \/ AddSkillToJob

SpecSkills == InitSkills /\ [][NextSkills]_vars

(***************************************************************************)
(* Claims about the skills of a job (checked under SpecSkills).            *)
(***************************************************************************)
\* C27: however the add_skill_to_job requests arrive and are served, two
\* of them for the same pair in flight together included, JOB_SKILLS holds
\* at most one row for a (job, skill) pair, and a request for a pair that
\* is associated already is answered with a client error and no id, and
\* inserts nothing.
C27_AtMostOneRowPerPair ==
    /\ \A a, b \in DOMAIN JOB_SKILLS :
          (JOB_SKILLS[a].job_id = JOB_SKILLS[b].job_id
              /\ JOB_SKILLS[a].skill_id = JOB_SKILLS[b].skill_id) => a = b
    /\ (op.last # Nil /\ op.last.existed) =>
          /\ op.last.status \in 400..499
          /\ op.last.job_skill_id = JNull
          /\ ~op.last.inserted

\* Two requests for job 1 and skill 1 were in flight together: the first
\* served inserted the row, the other was answered 400.
C27_Witness ==
    /\ op.last # Nil
    /\ op.last.request = [job_id |-> 1, skill_id |-> 1, obrigatoria |-> TRUE]
    /\ <<1, 1>> \in op.raced
    /\ op.last.existed
    /\ op.last.status = 400
    /\ Len(JOB_SKILLS) = 1

(***************************************************************************)
(* The methods of DatabaseService called one by one, each under every      *)
(* outcome of the database (SpecGateway). Here op is the call made and     *)
(* what it gave its caller.                                                *)
(***************************************************************************)
\* database_service.py 136-184: the candidates in name order, [] when the
\* connection or a query failed.
get_all_candidates(users, outcome) ==
    IF outcome = "ok"
    THEN [k \in DOMAIN users |->
             [id |-> users[k], name |-> CandidateTable[users[k]].name,
              email |-> CandidateTable[users[k]].email,
              skills |-> CandidateTable[users[k]].skills]]
    ELSE <<>>

Returned(value) == [raised |-> FALSE, value |-> value]

InitGateway ==
    /\ pc = "gateway"
    /\ request = Nil
    /\ USERS = <<1, 2, 3>>
    /\ candidate_data = Nil
    /\ job_data = Nil
    /\ completion = Nil
    /\ analysis = Nil
    /\ all_candidates = <<>>
    /\ i = 0
    /\ ranked_candidates = <<>>
    /\ MODEL_RESULTS = <<>>
    /\ dispositions = <<>>
    /\ returned = Nil
    /\ http = Nil
    /\ candidates_data = <<>>
    /\ ranked_results = <<>>
    /\ checked_out = 0
    /\ CANDIDATE_COMMENTS = <<>>
    /\ JOB_SKILLS = <<>>
    /\ op = Nil

CallGetCandidateData ==
    /\ pc = "gateway"
    /\ \E candidate_id \in CandidateIds \cup MissingCandidateIds,
          outcome \in ConnOutcomes :
          LET r == get_candidate_data(candidate_id, outcome) IN
          /\ CanAcquire(outcome)
          /\ checked_out' = checked_out + r.leaked
          /\ op' = [name |-> "get_candidate_data", id |-> candidate_id,
                    db |-> outcome,
                    result |-> [raised |-> r.raised, value |-> r.value]]
    /\ UNCHANGED <<CANDIDATE_COMMENTS, notStoreVars>>

CallGetJobData ==
    /\ pc = "gateway"
    /\ \E job_id \in JobIds \cup MissingJobIds, outcome \in ConnOutcomes :
          LET r == get_job_data(job_id, outcome) IN
          /\ CanAcquire(outcome)
          /\ checked_out' = checked_out + r.leaked
          /\ op' = [name |-> "get_job_data", id |-> job_id, db |-> outcome,
                    result |-> Returned(r.value)]
    /\ UNCHANGED <<CANDIDATE_COMMENTS, notStoreVars>>

CallGetAllCandidates ==
    /\ pc = "gateway"
    /\ \E outcome \in ConnOutcomes :
          /\ CanAcquire(outcome)
          /\ op' = [name |-> "get_all_candidates", db |-> outcome,
                    result |-> Returned(get_all_candidates(USERS, outcome))]
    /\ UNCHANGED <<checked_out, CANDIDATE_COMMENTS, notStoreVars>>

CallAddSkillToJob ==
    /\ pc = "gateway"
    /\ \E r \in AddSkillRequests, outcome \in ConnOutcomes :
          LET added == add_skill_to_job(JOB_SKILLS, r.job_id, r.skill_id,
                                        r.obrigatoria, outcome)
          IN  /\ r.job_id \in JobIds
              /\ CanAcquire(outcome)
              /\ JOB_SKILLS' = added.rows
              /\ op' = [name |-> "add_skill_to_job", id |-> r.job_id,
                        db |-> outcome,
                        result |-> Returned(IF added.value = JNull THEN Nil
                                            ELSE added.value)]
    /\ UNCHANGED <<checked_out, CANDIDATE_COMMENTS, pc, scorerVars, rankVars,
                   searchVars>>

NextGateway ==
    \/ CallGetCandidateData
    \/ CallGetJobData
    \/ CallGetAllCandidates
    \/ CallAddSkillToJob

SpecGateway == InitGateway /\ [][NextGateway]_vars

(***************************************************************************)
(* Claims about the gateway (checked under SpecGateway).                   *)
(***************************************************************************)
ListOperations == {"get_all_candidates"}

\* C30: a DatabaseService operation never raises to its caller, and when
\* the database failed, be it the acquisition of the connection or a
\* statement, it returns its empty result: [] for a list operation, None
\* for the others.
C30_FailureIsEmptyResult ==
    (pc = "gateway" /\ op # Nil) =>
        /\ ~op.result.raised
        /\ op.db \in {"down", "error"} =>
              IF op.name \in ListOperations
              THEN op.result.value = <<>>
              ELSE op.result.value = Nil

====
